---- MODULE Spec2Model ----
(***************************************************************************)
(* A model of the Rona clearance scraper (scrapeStore and the extraction   *)
(* and reconciliation functions it calls).                                 *)
(*                                                                         *)
(* Texts are TLA+ strings; a JavaScript number is a decimal                *)
(* [kind |-> "num", m, e] standing for m / 10^e (exact, no binary          *)
(* rounding), and null is [kind |-> "null"].                               *)
(***************************************************************************)
EXTENDS Integers, Sequences, FiniteSets, TLC

\* ------------------------------------------------------------------ texts

Digits == {"0", "1", "2", "3", "4", "5", "6", "7", "8", "9"}

DigitVal(c) ==
  CASE c = "0" -> 0 [] c = "1" -> 1 [] c = "2" -> 2 [] c = "3" -> 3
    [] c = "4" -> 4 [] c = "5" -> 5 [] c = "6" -> 6 [] c = "7" -> 7
    [] c = "8" -> 8 [] c = "9" -> 9

\* s.charAt(i - 1)
Ch(s, i) == SubSeq(s, i, i)

\* s.includes(c), c one character
Includes(s, c) == \E i \in 1..Len(s) : Ch(s, i) = c

\* s.lastIndexOf(c), 1-based, 0 when c does not occur
LastIndexOf(s, c) ==
  IF Includes(s, c)
    THEN CHOOSE i \in 1..Len(s) :
           Ch(s, i) = c /\ \A j \in (i + 1)..Len(s) : Ch(s, j) # c
    ELSE 0

\* s.indexOf(c), 1-based, 0 when c does not occur
IndexOf(s, c) ==
  IF Includes(s, c)
    THEN CHOOSE i \in 1..Len(s) :
           Ch(s, i) = c /\ \A j \in 1..(i - 1) : Ch(s, j) # c
    ELSE 0

RECURSIVE KeepChars(_, _)
\* the characters of s that are in the set keep, in order
KeepChars(s, keep) ==
  IF s = "" THEN ""
  ELSE (IF Head(s) \in keep THEN Head(s) ELSE "") \o KeepChars(Tail(s), keep)

\* s.replace(/c/g, '')
RemoveAll(s, c) == KeepChars(s, {Ch(s, i) : i \in 1..Len(s)} \ {c})

\* s.replace(c, d): the first occurrence only
ReplaceFirst(s, c, d) ==
  IF ~Includes(s, c) THEN s
  ELSE SubSeq(s, 1, IndexOf(s, c) - 1) \o d \o SubSeq(s, IndexOf(s, c) + 1, Len(s))

\* the length of the longest run of digits of s that starts at position i
RECURSIVE DigitRun(_, _)
DigitRun(s, i) ==
  IF i <= Len(s) /\ Ch(s, i) \in Digits THEN 1 + DigitRun(s, i + 1) ELSE 0

RECURSIVE DigitsToInt(_)
\* the integer a string of digits denotes
DigitsToInt(s) ==
  IF s = "" THEN 0
  ELSE 10 * DigitsToInt(SubSeq(s, 1, Len(s) - 1)) + DigitVal(Ch(s, Len(s)))

\* ---------------------------------------------------------------- numbers

NULL == [kind |-> "null"]

IsNull(v) == v.kind = "null"

IsNum(v) == v.kind = "num"

RECURSIVE Pow10(_)
Pow10(n) == IF n = 0 THEN 1 ELSE 10 * Pow10(n - 1)

RECURSIVE Num(_, _)
\* the number m / 10^e, in lowest decimal form
Num(m, e) ==
  IF e > 0 /\ m % 10 = 0 THEN Num(m \div 10, e - 1)
  ELSE [kind |-> "num", m |-> m, e |-> e]

\* the mantissa of number v at e fractional digits (e >= v.e)
Scaled(v, e) == v.m * Pow10(e - v.e)

MaxE(a, b) == IF a.e >= b.e THEN a.e ELSE b.e

\* a < b, a <= b on numbers
NumLt(a, b) == Scaled(a, MaxE(a, b)) < Scaled(b, MaxE(a, b))

NumLe(a, b) == Scaled(a, MaxE(a, b)) <= Scaled(b, MaxE(a, b))

\* JavaScript truthiness of a number or null: !v is ~Truthy(v)
TruthyNum(v) == IsNum(v) /\ v.m # 0

\* parseFloat(s) for s over digits, '.' and ',': the longest prefix
\* digits [ '.' digits ] with at least one digit; NaN is NULL
\* the number with integer digits s[1..ni] and fraction digits s[ni+2..ni+1+nf]
FloatOf(s, ni, nf) ==
  IF ni + nf = 0 THEN NULL
  ELSE Num(DigitsToInt(SubSeq(s, 1, ni) \o SubSeq(s, ni + 2, ni + 1 + nf)), nf)

\* ParseFloat with ni the length of the integer digits
FloatFrom(s, ni) ==
  FloatOf(s, ni, IF ni + 1 <= Len(s) /\ Ch(s, ni + 1) = "."
                   THEN DigitRun(s, ni + 2) ELSE 0)

ParseFloat(s) == FloatFrom(s, DigitRun(s, 1))

\* separator rules that take every comma for a thousands separator, the
\* variant against which the rules of parsePrice are compared
dropCommas(cleaned) == RemoveAll(cleaned, ",")

\* the separator rules of parsePrice on the cleaned text
fixSeparators(cleaned) ==
  IF Includes(cleaned, ",") /\ Includes(cleaned, ".")
    THEN IF LastIndexOf(cleaned, ".") > LastIndexOf(cleaned, ",")
           THEN RemoveAll(cleaned, ",")
           ELSE ReplaceFirst(RemoveAll(cleaned, "."), ",", ".")
  ELSE IF Includes(cleaned, ",")
    THEN ReplaceFirst(cleaned, ",", ".")
  ELSE cleaned

\* parsePrice from its cleaned text on
parseCleaned(cleaned) ==
  IF cleaned = "" THEN NULL ELSE ParseFloat(fixSeparators(cleaned))

parsePrice(raw) ==
  IF raw = "" THEN NULL
  ELSE parseCleaned(KeepChars(raw, Digits \cup {".", ","}))

\* the length of the match of /[\d.,]*/ at position i of text
RECURSIVE PriceRun(_, _)
PriceRun(text, i) ==
  IF i <= Len(text) /\ Ch(text, i) \in (Digits \cup {".", ","})
    THEN 1 + PriceRun(text, i + 1)
    ELSE 0

RECURSIVE PriceMatches(_, _)
\* text.match(/\d+[\d.,]*/g) from position i on
PriceMatches(text, i) ==
  IF i > Len(text) THEN <<>>
  ELSE IF Ch(text, i) \in Digits
    THEN <<SubSeq(text, i, i + PriceRun(text, i) - 1)>>
           \o PriceMatches(text, i + PriceRun(text, i))
    ELSE PriceMatches(text, i + 1)

\* matches.map(parsePrice).filter(Number.isFinite)
parseMatches(matches) ==
  SelectSeq([i \in 1..Len(matches) |-> parsePrice(matches[i])], IsNum)

extractPricesFromText(text) ==
  IF text = "" THEN <<>> ELSE parseMatches(PriceMatches(text, 1))

\* a rounding of the percentage up to the next integer, the variant against
\* which the rounding of computeDiscountPct is compared
RoundCeil(R, S) == (100 * (R - S) + R - 1) \div R

\* Math.round(100 * (r - s) / r) for 0 < s < r: halves round up
RoundScaled(R, S) == (200 * (R - S) + R) \div (2 * R)

\* the percentages k for which the double ((r - s) / r) * 100 of an exact
\* k + 1/2 is below k + 1/2, so that Math.round gives k and not k + 1 (for
\* prices that are integers the double depends on the ratio only; prices
\* with fractional digits are taken to behave as the integers of their ratio)
LostTies == {14, 28, 56, 57}

\* 100 * (R - S) / R is an integer and a half
IsTie(R, S) == (200 * (R - S)) % (2 * R) = R

\* Math.round of the double, rounded being the exact percentage rounded
\* half-up
roundDouble(R, S, rounded) ==
  IF IsTie(R, S) /\ (rounded - 1) \in LostTies THEN rounded - 1 ELSE rounded

roundScaledPct(R, S) == roundDouble(R, S, RoundScaled(R, S))

RoundPct(r, s) == roundScaledPct(Scaled(r, MaxE(r, s)), Scaled(s, MaxE(r, s)))

computeDiscountPct(regularPrice, salePrice) ==
  IF ~TruthyNum(regularPrice) \/ ~TruthyNum(salePrice) THEN NULL
  ELSE IF regularPrice.m <= 0 \/ salePrice.m <= 0 THEN NULL
  ELSE IF NumLe(regularPrice, salePrice) THEN NULL
  ELSE Num(RoundPct(regularPrice, salePrice), 0)

\* ------------------------------------------------------------ JSON values
\* A parsed JSON value: NULL, a number Num(m, e), JStr, JArr or JObj; an
\* object keeps its members in insertion order, as Object.entries does.
\* UNDEF is JavaScript's undefined (an absent member).

UNDEF == [kind |-> "undefined"]

JStr(s) == [kind |-> "str", s |-> s]

JArr(items) == [kind |-> "arr", items |-> items]

JObj(fields) == [kind |-> "obj", fields |-> fields]

\* one member of an object
F(k, v) == [k |-> k, v |-> v]

\* JavaScript truthiness: !v is ~Truthy(v)
Truthy(v) ==
  CASE v.kind = "null" -> FALSE
    [] v.kind = "undefined" -> FALSE
    [] v.kind = "num" -> v.m # 0
    [] v.kind = "str" -> v.s # ""
    [] OTHER -> TRUE

\* typeof v === 'object' for a truthy v
IsObjectLike(v) == v.kind \in {"arr", "obj"}

\* part in current, for an object or an array
HasMember(current, part) ==
  CASE current.kind = "obj" ->
         \E i \in 1..Len(current.fields) : current.fields[i].k = part
    [] current.kind = "arr" ->
         /\ part # ""
         /\ DigitRun(part, 1) = Len(part)
         /\ (Len(part) = 1 \/ Head(part) # "0")
         /\ DigitsToInt(part) < Len(current.items)
    [] OTHER -> FALSE

\* current[part], UNDEF when absent
Member(current, part) ==
  IF ~HasMember(current, part) THEN UNDEF
  ELSE IF current.kind = "obj"
    THEN current.fields[CHOOSE i \in 1..Len(current.fields) :
                          current.fields[i].k = part].v
    ELSE current.items[DigitsToInt(part) + 1]

RECURSIVE PadZeros(_, _)
\* the digits s left-padded with zeros to length n
PadZeros(s, n) == IF Len(s) >= n THEN s ELSE PadZeros("0" \o s, n)

\* String(v) for a number v >= 0
NumToString(v) ==
  IF v.e = 0 THEN ToString(v.m)
  ELSE ToString(v.m \div Pow10(v.e)) \o "."
         \o PadZeros(ToString(v.m % Pow10(v.e)), v.e)

RECURSIVE StringOf(_)
RECURSIVE JoinItems(_, _)
\* items.slice(i - 1).join(','): null and undefined items give ''
JoinItems(items, i) ==
  IF i > Len(items) THEN ""
  ELSE (IF items[i].kind \in {"null", "undefined"} THEN "" ELSE StringOf(items[i]))
         \o (IF i < Len(items) THEN "," ELSE "")
         \o JoinItems(items, i + 1)

\* String(v)
StringOf(v) ==
  CASE v.kind = "str" -> v.s
    [] v.kind = "num" -> NumToString(v)
    [] v.kind = "arr" -> JoinItems(v.items, 1)
    [] v.kind = "obj" -> "[object Object]"
    [] v.kind = "null" -> "null"
    [] OTHER -> "undefined"

RECURSIVE SplitDot(_)
\* key.split('.')
SplitDot(key) ==
  IF ~Includes(key, ".") THEN <<key>>
  ELSE <<SubSeq(key, 1, IndexOf(key, ".") - 1)>>
         \o SplitDot(SubSeq(key, IndexOf(key, ".") + 1, Len(key)))

\* ------------------------------------------------------------ URL resolve
\* new URL(s, base).toString() for the storefront origin as base: [ok, url],
\* ok = FALSE when the constructor throws (TypeError: Invalid URL).  An
\* http(s) URL with an empty host cannot be parsed; a text starting with
\* '/' or a relative path is resolved against the origin.

BASE_ORIGIN == "https://www.rona.ca"

HasPrefix(s, p) == Len(s) >= Len(p) /\ SubSeq(s, 1, Len(p)) = p

\* the URL scheme://rest with rest its host and path
ResolveAuthority(scheme, rest) ==
  IF rest = "" \/ Head(rest) = "/" \/ Head(rest) = "?" \/ Head(rest) = "#"
    THEN [ok |-> FALSE, url |-> ""]
    ELSE [ok |-> TRUE,
          url |-> scheme \o "://" \o rest
                    \o (IF Includes(rest, "/") THEN "" ELSE "/")]

ResolveUrl(s) ==
  IF HasPrefix(s, "https://")
    THEN ResolveAuthority("https", SubSeq(s, 9, Len(s)))
  ELSE IF HasPrefix(s, "http://")
    THEN ResolveAuthority("http", SubSeq(s, 8, Len(s)))
  ELSE IF HasPrefix(s, "//")
    THEN ResolveAuthority("https", SubSeq(s, 3, Len(s)))
  ELSE IF HasPrefix(s, "/")
    THEN [ok |-> TRUE, url |-> BASE_ORIGIN \o s]
  ELSE [ok |-> TRUE, url |-> BASE_ORIGIN \o "/" \o s]

\* ------------------------------------------------------------- reconciler

\* a walk that stops at the value it is given, the variant against which
\* the descent of visit into objects is compared
visitOnce(value, pathKey) ==
  IF value.kind = "arr" /\ Len(value.items) > 0
       /\ \A i \in 1..Len(value.items) :
            Truthy(value.items[i]) /\ IsObjectLike(value.items[i])
    THEN <<[path |-> pathKey, items |-> value.items]>>
    ELSE <<>>

RECURSIVE visit(_, _)
RECURSIVE visitEntries(_, _, _)
RECURSIVE priorityScan(_, _, _)
RECURSIVE pickFrom(_, _, _)
\* the for loop of visit over Object.entries(value), from member i on
visitEntries(fields, i, pathKey) ==
  IF i > Len(fields) THEN <<>>
  ELSE visit(fields[i].v,
             IF pathKey # "" THEN pathKey \o "." \o fields[i].k ELSE fields[i].k)
         \o visitEntries(fields, i + 1, pathKey)

\* the candidates visit(value, pathKey) pushes, in push order
visit(value, pathKey) ==
  IF ~Truthy(value) THEN <<>>
  ELSE IF value.kind = "arr" /\ Len(value.items) > 0
    THEN IF \A i \in 1..Len(value.items) :
              Truthy(value.items[i]) /\ IsObjectLike(value.items[i])
           THEN <<[path |-> pathKey, items |-> value.items]>>
           ELSE <<>>
  ELSE IF value.kind = "obj" THEN visitEntries(value.fields, 1, pathKey)
  ELSE <<>>

collectCandidateArrays(data) == visit(data, "")

extractNumber(value) ==
  IF value.kind \in {"null", "undefined"} THEN NULL
  ELSE IF value.kind = "num" THEN value
  ELSE IF value.kind = "str" THEN parsePrice(value.s)
  ELSE NULL

RECURSIVE walkParts(_, _, _)
\* the inner loop of pickFirstValue from part i on: [found, current]
walkParts(current, parts, i) ==
  IF i > Len(parts) THEN [found |-> TRUE, current |-> current]
  ELSE IF ~Truthy(current) \/ ~IsObjectLike(current) \/ ~HasMember(current, parts[i])
    THEN [found |-> FALSE, current |-> current]
  ELSE walkParts(Member(current, parts[i]), parts, i + 1)

\* an iteration that returns whatever a complete walk ends on, null
\* included, the variant against which the test of the value found is
\* compared
pickPresent(item, keys, i, w) ==
  IF w.found THEN (IF w.current.kind = "undefined" THEN NULL ELSE w.current)
  ELSE pickFrom(item, keys, i + 1)

\* the outer loop of pickFirstValue from key i on
\* the end of one iteration of pickFirstValue, w the outcome of its walk
pickStep(item, keys, i, w) ==
  IF w.found /\ w.current.kind \notin {"null", "undefined"}
    THEN w.current
    ELSE pickFrom(item, keys, i + 1)

pickFrom(item, keys, i) ==
  IF i > Len(keys) THEN NULL
  ELSE pickStep(item, keys, i, walkParts(item, SplitDot(keys[i]), 1))

pickFirstValue(item, keys) == pickFrom(item, keys, 1)

NameKeys ==
  <<"name", "productName", "title", "shortDescription", "description", "label">>

UrlKeys ==
  <<"url", "pdpUrl", "productUrl", "seoUrl", "link", "href", "attributes.webPath">>

ImageKeys ==
  <<"image", "imageUrl", "thumbnail", "thumbnailUrl", "primaryImage",
    "images.0.url", "images.0", "image.url">>

SkuKeys == <<"sku", "productId", "id", "code">>

RegularPriceKeys ==
  <<"regularPrice", "listPrice", "originalPrice", "wasPrice", "basePrice",
    "price.regular", "price.original", "price.list", "price.value">>

SalePriceKeys ==
  <<"salePrice", "offerPrice", "currentPrice", "specialPrice",
    "price.sale", "price.current", "price.now">>

FallbackPriceKeys == <<"price", "prices", "priceText">>

\* a ?? b
Coalesce(a, b) == IF a.kind \in {"null", "undefined"} THEN b ELSE a

\* a resolution that raises for an entry without URL, the variant against
\* which the test of urlValue is compared
resolveStrict(urlValue) ==
  IF Truthy(urlValue) THEN ResolveUrl(StringOf(urlValue))
  ELSE [ok |-> FALSE, url |-> ""]

\* urlValue ? new URL(String(urlValue), baseUrl).toString() : ''
resolveCaptured(urlValue) ==
  IF Truthy(urlValue) THEN ResolveUrl(StringOf(urlValue))
  ELSE [ok |-> TRUE, url |-> ""]

\* the record normalizeCapturedProducts builds from the values it picked
buildCaptured(name, resolved, imageValue, sku, regularPrice, salePrice) ==
  [threw |-> ~resolved.ok,
   skip  |-> ~Truthy(name) \/ resolved.url = "",
   product |->
     [name |-> StringOf(name),
      url |-> resolved.url,
      image |-> IF Truthy(imageValue) THEN StringOf(imageValue) ELSE "",
      sku |-> IF Truthy(sku) THEN StringOf(sku) ELSE "",
      regularPrice |-> regularPrice,
      salePrice |-> salePrice,
      discountPct |-> computeDiscountPct(regularPrice, salePrice)]]

\* the record one iteration of normalizeCapturedProducts builds for item
\* (an object or an array), before the name, url and seen tests
mapCapturedItem(item) ==
  buildCaptured(
    pickFirstValue(item, NameKeys),
    resolveCaptured(pickFirstValue(item, UrlKeys)),
    pickFirstValue(item, ImageKeys),
    Coalesce(pickFirstValue(item, SkuKeys), JStr("")),
    Coalesce(extractNumber(pickFirstValue(item, RegularPriceKeys)),
             extractNumber(pickFirstValue(item, FallbackPriceKeys))),
    extractNumber(pickFirstValue(item, SalePriceKeys)))

RECURSIVE normalizeFrom(_, _, _, _)
\* the end of one iteration of normalizeCapturedProducts, r the mapped item
normalizeStep(items, i, normalized, seen, r) ==
  IF r.threw THEN [threw |-> TRUE, items |-> <<>>]
  ELSE IF r.skip \/ r.product.url \in seen
    THEN normalizeFrom(items, i + 1, normalized, seen)
  ELSE normalizeFrom(items, i + 1, Append(normalized, r.product),
                     seen \cup {r.product.url})

\* the loop of normalizeCapturedProducts from item i on: [threw, items]
normalizeFrom(items, i, normalized, seen) ==
  IF i > Len(items) THEN [threw |-> FALSE, items |-> normalized]
  ELSE IF ~Truthy(items[i]) \/ ~IsObjectLike(items[i])
    THEN normalizeFrom(items, i + 1, normalized, seen)
  ELSE normalizeStep(items, i, normalized, seen, mapCapturedItem(items[i]))

normalizeCapturedProducts(items) == normalizeFrom(items, 1, <<>>, {})

\* the filter both passes end with
KeepsDiscount(item) ==
  ~IsNull(item.discountPct) /\ NumLe(Num(50, 0), item.discountPct)

priorityKeys ==
  <<"CatalogEntryView", "catalogEntryView", "products", "items", "results",
    "searchResults", "entries">>

NoMatch == [url |-> "", path |-> "", items |-> <<>>, none |-> TRUE]

Match(url, path, items) ==
  [url |-> url, path |-> path, items |-> items, none |-> FALSE]

\* entry.data[key]
DataMember(data, key) == IF data.kind = "obj" THEN Member(data, key) ELSE UNDEF

\* the loop over priorityKeys for one entry, from key k on
\* one iteration of the loop over priorityKeys, v being entry.data[key]
priorityStep(entry, k, bestMatch, v) ==
  IF v.kind = "arr" /\ (bestMatch.none \/ Len(v.items) > Len(bestMatch.items))
    THEN priorityScan(entry, k + 1, Match(entry.url, priorityKeys[k], v.items))
    ELSE priorityScan(entry, k + 1, bestMatch)

priorityScan(entry, k, bestMatch) ==
  IF k > Len(priorityKeys) THEN bestMatch
  ELSE priorityStep(entry, k, bestMatch, DataMember(entry.data, priorityKeys[k]))

RECURSIVE candidateScan(_, _, _, _)
\* the loop over the candidates of one entry, from candidate c on
candidateScan(entry, candidates, c, bestMatch) ==
  IF c > Len(candidates) THEN bestMatch
  ELSE IF bestMatch.none \/ Len(candidates[c].items) > Len(bestMatch.items)
    THEN candidateScan(entry, candidates, c + 1,
                       Match(entry.url, candidates[c].path, candidates[c].items))
    ELSE candidateScan(entry, candidates, c + 1, bestMatch)

\* the generic walk of one entry, run when no bestMatch is held
genericScan(entry, bestMatch) ==
  IF bestMatch.none
    THEN candidateScan(entry, collectCandidateArrays(entry.data), 1, bestMatch)
    ELSE bestMatch

\* one iteration of the loop over captured: the bestMatch after entry
scanEntry(entry, bestMatch) ==
  IF ~Truthy(entry.data) THEN bestMatch
  ELSE genericScan(entry, priorityScan(entry, 1, bestMatch))

RECURSIVE selectBestMatch(_, _, _)
\* the loop over captured from entry i on
selectBestMatch(captured, i, bestMatch) ==
  IF i > Len(captured) THEN bestMatch
  ELSE selectBestMatch(captured, i + 1, scanEntry(captured[i], bestMatch))

\* the return of extractProductsFromCaptured for a bestMatch
filterMatch(bestMatch, normalized) ==
  [threw |-> normalized.threw,
   products |-> SelectSeq(normalized.items, KeepsDiscount),
   matched |-> bestMatch]

\* a reconciler that raises when it has selected no array, the variant
\* against which the early return of extractProductsFromCaptured is compared
normalizeMatchStrict(bestMatch) ==
  IF bestMatch.none
    THEN [threw |-> TRUE, products |-> <<>>, matched |-> NoMatch]
    ELSE filterMatch(bestMatch, normalizeCapturedProducts(bestMatch.items))

\* extractProductsFromCaptured from its bestMatch on
normalizeMatch(bestMatch) ==
  IF bestMatch.none
    THEN [threw |-> FALSE, products |-> <<>>, matched |-> NoMatch]
    ELSE filterMatch(bestMatch, normalizeCapturedProducts(bestMatch.items))

\* [threw, products, matched]
extractProductsFromCaptured(captured) ==
  normalizeMatch(selectBestMatch(captured, 1, NoMatch))

\* --------------------------------------------------------------- DOM pass
\* A tile is the RawTileData record page.$$eval returns for one element:
\* [name, url, image, sku, regularPriceText, salePriceText], all texts.

RECURSIVE MaxOf(_, _)
\* Math.max(...list) from element i on, list not empty
MaxOf(list, i) ==
  IF i = Len(list) THEN list[i]
  ELSE IF NumLt(list[i], MaxOf(list, i + 1)) THEN MaxOf(list, i + 1)
  ELSE list[i]

RECURSIVE MinOf(_, _)
\* Math.min(...list) from element i on, list not empty
MinOf(list, i) ==
  IF i = Len(list) THEN list[i]
  ELSE IF NumLt(MinOf(list, i + 1), list[i]) THEN MinOf(list, i + 1)
  ELSE list[i]

\* list[0] ?? null
FirstOrNull(list) == IF Len(list) >= 1 THEN list[1] ELSE NULL

\* a test that takes a sale price of 0 for a sale price found, the variant
\* against which !salePrice is compared
usesCombinedIfAbsent(priceCandidates, saleCandidates) ==
  Len(saleCandidates) = 0 /\ Len(priceCandidates) >= 2

\* !salePrice && priceCandidates.length >= 2
usesCombined(priceCandidates, saleCandidates) ==
  ~TruthyNum(FirstOrNull(saleCandidates)) /\ Len(priceCandidates) >= 2

\* a regular price left as found, the variant against which the fallback to
\* the sale price is compared
regularAsFound(regularPrice, saleCandidates) == regularPrice

\* if (!regularPrice && saleCandidates.length >= 1) regularPrice = saleCandidates[0]
regularOrSale(regularPrice, saleCandidates) ==
  IF ~TruthyNum(regularPrice) /\ Len(saleCandidates) >= 1
    THEN saleCandidates[1] ELSE regularPrice

\* the regular and sale price of a tile from the numbers of its two texts
pricesFrom(priceCandidates, saleCandidates) ==
  IF usesCombined(priceCandidates, saleCandidates)
    THEN [regularPrice |-> regularOrSale(MaxOf(priceCandidates, 1), saleCandidates),
          salePrice |-> MinOf(priceCandidates, 1)]
    ELSE [regularPrice |-> regularOrSale(FirstOrNull(priceCandidates), saleCandidates),
          salePrice |-> FirstOrNull(saleCandidates)]

\* the regular and sale price one iteration of extractProducts resolves
resolvePrices(item) ==
  pricesFrom(extractPricesFromText(item.regularPriceText),
             extractPricesFromText(item.salePriceText))

\* item.url ? new URL(item.url, 'https://www.rona.ca').toString() : ''
resolveTile(url) ==
  IF url # "" THEN ResolveUrl(url) ELSE [ok |-> TRUE, url |-> ""]

\* the record extractProducts builds from a tile, its prices and its URL
buildTile(item, prices, resolved) ==
  [threw  |-> ~resolved.ok,
   parsed |-> item.name # "" /\ IsNum(prices.salePrice),
   skip   |-> item.name = "" \/ resolved.url = "",
   product |->
     [name |-> item.name,
      url |-> resolved.url,
      image |-> item.image,
      sku |-> item.sku,
      regularPrice |-> prices.regularPrice,
      salePrice |-> prices.salePrice,
      discountPct |->
        computeDiscountPct(prices.regularPrice, prices.salePrice)]]

\* the record one iteration of extractProducts builds for a tile
mapTile(item) == buildTile(item, resolvePrices(item), resolveTile(item.url))

\* a pass without de-duplication, the variant against which seen.has is
\* compared
neverDuplicate(url, seen) == url \notin seen \cup {url}

\* seen.has(url): the tile is a duplicate of an earlier one
isDuplicate(url, seen) == url \in seen

RECURSIVE tileLoop(_, _, _, _, _, _)
\* an iteration that marks a URL as seen only for a tile it keeps, the
\* variant against which the place of seen.add is compared
filterBeforeSeen(tileData, i, normalized, seen, parsedCount, keptCount, r) ==
  IF r.threw
    THEN [threw |-> TRUE, products |-> <<>>,
          parsedCount |-> parsedCount, keptCount |-> keptCount]
  ELSE IF r.skip \/ isDuplicate(r.product.url, seen) \/ ~KeepsDiscount(r.product)
    THEN tileLoop(tileData, i + 1, normalized, seen, parsedCount, keptCount)
  ELSE tileLoop(tileData, i + 1, Append(normalized, r.product),
                seen \cup {r.product.url}, parsedCount, keptCount + 1)

\* the end of one iteration of extractProducts, r the mapped tile and
\* parsedCount already counting it
tileStep(tileData, i, normalized, seen, parsedCount, keptCount, r) ==
  IF r.threw
    THEN [threw |-> TRUE, products |-> <<>>,
          parsedCount |-> parsedCount, keptCount |-> keptCount]
  ELSE IF r.skip \/ isDuplicate(r.product.url, seen)
    THEN tileLoop(tileData, i + 1, normalized, seen, parsedCount, keptCount)
  ELSE tileLoop(tileData, i + 1, Append(normalized, r.product),
                seen \cup {r.product.url}, parsedCount,
                keptCount + (IF KeepsDiscount(r.product) THEN 1 ELSE 0))

\* a count of the tiles that are parsed and not skipped, the variant against
\* which the place of parsedCount += 1 is compared
countUnskipped(tileData, i, normalized, seen, parsedCount, keptCount, r) ==
  tileStep(tileData, i, normalized, seen,
           parsedCount + (IF r.parsed /\ ~r.skip THEN 1 ELSE 0), keptCount, r)

\* a pass that leaves parsedCount alone, the variant against which the
\* counting of the parsed tiles is compared
countNothing(tileData, i, normalized, seen, parsedCount, keptCount, r) ==
  tileStep(tileData, i, normalized, seen, parsedCount, keptCount, r)

\* if (item.name && Number.isFinite(salePrice)) parsedCount += 1
countParsed(tileData, i, normalized, seen, parsedCount, keptCount, r) ==
  tileStep(tileData, i, normalized, seen,
           parsedCount + (IF r.parsed THEN 1 ELSE 0), keptCount, r)

\* the loop of extractProducts from tile i on
tileLoop(tileData, i, normalized, seen, parsedCount, keptCount) ==
  IF i > Len(tileData)
    THEN [threw |-> FALSE,
          products |-> SelectSeq(normalized, KeepsDiscount),
          parsedCount |-> parsedCount,
          keptCount |-> keptCount]
  ELSE countParsed(tileData, i, normalized, seen, parsedCount, keptCount,
                   mapTile(tileData[i]))

\* [threw, products, parsedCount, keptCount]
extractProducts(tileData) == tileLoop(tileData, 1, <<>>, {}, 0, 0)

\* ------------------------------------------------------- response capture

maxCaptures == 20

minCaptureSize == 2000

maxCaptureSize == 5242880

UpperLetters == "ABCDEFGHIJKLMNOPQRSTUVWXYZ"

LowerLetters == "abcdefghijklmnopqrstuvwxyz"

RECURSIVE ToLower(_)
\* s.toLowerCase()
ToLower(s) ==
  IF s = "" THEN ""
  ELSE (IF Includes(UpperLetters, Head(s))
          THEN Ch(LowerLetters, IndexOf(UpperLetters, Head(s)))
          ELSE Head(s)) \o ToLower(Tail(s))

\* s.includes(sub)
Contains(s, sub) ==
  \E i \in 1..(Len(s) - Len(sub) + 1) : SubSeq(s, i, i + Len(sub) - 1) = sub

\* the alternatives of captureMatchers, a case-insensitive pattern
captureMatchers ==
  {"promoclearance", "search", "catalog", "getcatalog", "wcs", "api", "products"}

\* captureMatchers.test(url)
matchesCapture(url) == \E p \in captureMatchers : Contains(ToLower(url), p)

\* ['xhr', 'fetch', 'document'].includes(resourceType)
capturedType(resourceType) == resourceType \in {"xhr", "fetch", "document"}

\* Number.parseInt(text, 10) of a header text without sign: NULL is NaN
ParseInt(text) ==
  IF DigitRun(text, 1) = 0 THEN NULL
  ELSE Num(DigitsToInt(SubSeq(text, 1, DigitRun(text, 1))), 0)

\* A response is [url, status, ct, resourceType, contentLength, bodyLength,
\* parses, json]: ct and contentLength are the header texts ('' when absent),
\* bodyLength is the length of the body text, parses tells whether
\* JSON.parse accepts the body and json is the value it then returns.

\* the tests of the response handler before it awaits the body
\* Number.isFinite(contentLength) && contentLength > maxCaptureSize
tooLong(contentLength) ==
  IsNum(contentLength) /\ contentLength.m > maxCaptureSize

passesHead(res, capturedLen) ==
  /\ capturedType(res.resourceType)
  /\ matchesCapture(res.url)
  /\ capturedLen < maxCaptures
  /\ ~tooLong(ParseInt(res.contentLength))

\* a body test that accepts every body, the variant against which the size
\* test of the handler is compared
passesAnyBody(res) == res.bodyLength >= 0

\* the test of the response handler on the body it awaited
passesBody(res) ==
  ~(res.bodyLength < minCaptureSize \/ res.bodyLength > maxCaptureSize)

\* the record the response handler pushes
\* the record pushed for a response whose body did or did not parse as JSON
captureRecord(res, ct, isJson) ==
  [url |-> res.url,
   ct |-> ct,
   status |-> res.status,
   resourceType |-> res.resourceType,
   bodyLength |-> res.bodyLength,
   data |-> IF isJson THEN res.json ELSE NULL,
   isJson |-> isJson]

captureOf(res) ==
  captureRecord(res, ToLower(res.ct),
                Contains(ToLower(res.ct), "json") /\ res.parses)

\* ----------------------------------------------------------------- inputs

MaxTiles == 3

MaxRunTiles == 1

MaxResponses == 2

MaxCaptured == 2

Tile(name, url, regularPriceText, salePriceText) ==
  [name |-> name, url |-> url, image |-> "/img/" \o name \o ".png",
   sku |-> "", regularPriceText |-> regularPriceText,
   salePriceText |-> salePriceText]

TileKinds ==
  { Tile("Drill", "/p/1", "$40.00", "$20.00"),
    Tile("Saw", "/p/2", "$100", "$50.80"),
    Tile("Lamp", "/p/3", "$10 $25", ""),
    Tile("Drill kit", "https://www.rona.ca/p/1", "$100", "$10"),
    Tile("Drill old", "https://www.rona.ca/p/1", "$40", "$30"),
    Tile("Paint", "/p/4", "19.99", "10.09"),
    Tile("", "/p/5", "$40", "$10"),
    Tile("Rope", "", "$40", "$10"),
    Tile("Glue", "http://", "$40", "$10"),
    Tile("Tape", "/p/6", "call us", ""),
    Tile("Nail", "/p/7", "", "$5"),
    Tile("Hose", "/p/9", "$40", "$30"),
    Tile("Bolt", "/p/10", "$10 $25", "$0") }

\* the sequences over S of length at most n
SeqsUpTo(S, n) == UNION {[1..k -> S] : k \in 0..n}

Entry(name, url, regularPrice, salePrice) ==
  JObj(<<F("name", name), F("url", url), F("regularPrice", regularPrice),
         F("salePrice", salePrice)>>)

EntryHalf == Entry(JStr("Drill"), JStr("/p/1"), Num(40, 0), Num(20, 0))

EntryLow == Entry(JStr("Saw"), JStr("/p/2"), Num(100, 0), Num(51, 0))

EntryNoUrl ==
  JObj(<<F("name", JStr("Rope")), F("regularPrice", Num(40, 0)),
         F("salePrice", Num(10, 0))>>)

EntryDup ==
  JObj(<<F("title", JStr("Drill kit")), F("url", NULL),
         F("seoUrl", JStr("https://www.rona.ca/p/1")),
         F("price", JObj(<<F("regular", JStr("$1,234.56")),
                           F("sale", JStr("99,00"))>>))>>)

EntryRounded == Entry(JStr("Paint"), JStr("/p/4"), Num(1999, 2), Num(1009, 2))

EntryArrayName == Entry(JArr(<<>>), JStr("/p/8"), Num(100, 0), Num(40, 0))

EntryBadUrl == Entry(JStr("Glue"), JStr("http://"), Num(40, 0), Num(10, 0))

EntryLamp == Entry(JStr("Lamp"), JStr("p/3"), JStr("25.00"), Num(10, 0))

Response(url, resourceType, ct, contentLength, bodyLength, parses, json) ==
  [url |-> url, status |-> 200, ct |-> ct, resourceType |-> resourceType,
   contentLength |-> contentLength, bodyLength |-> bodyLength,
   parses |-> parses, json |-> json]

JsonResponse(url, json) ==
  Response(url, "xhr", "application/json; charset=UTF-8", "", 4000, TRUE, json)

\* responses the handler retains
RetainedResponses ==
  { JsonResponse("https://www.rona.ca/api/products?page=1",
      JObj(<<F("total", Num(5, 0)),
             F("products", JArr(<<EntryHalf, EntryLow, EntryNoUrl, EntryDup,
                                  EntryRounded>>))>>)),
    JsonResponse("https://www.rona.ca/wcs/espot",
      JObj(<<F("data", JObj(<<F("tiles", JArr(<<EntryLamp, EntryLow,
                                                 EntryHalf>>))>>))>>)),
    JsonResponse("https://www.rona.ca/webapp/wcs/stores/servlet/Promo",
      JObj(<<F("page", JObj(<<F("grid", JArr(<<EntryLow, EntryLow, EntryLow,
                                                EntryLow, EntryLow, EntryNoUrl>>))>>))>>)),
    JsonResponse("https://www.rona.ca/api/items", JObj(<<F("items", JArr(<<>>))>>)),
    JsonResponse("https://www.rona.ca/api/results",
      JObj(<<F("results", JArr(<<EntryArrayName>>))>>)),
    JsonResponse("https://www.rona.ca/api/entries",
      JObj(<<F("entries", JArr(<<EntryLow, EntryBadUrl>>))>>)),
    Response("https://www.rona.ca/webapp/wcs/stores/servlet/RonaPromoClearanceView",
             "document", "text/html", "", 90000, FALSE, NULL) }

\* responses the handler drops
DroppedResponses ==
  { Response("https://www.rona.ca/api/ping", "xhr", "application/json", "",
             15, TRUE, JObj(<<F("products", JArr(<<EntryHalf>>))>>)),
    Response("https://www.rona.ca/wcs/hero.png", "image", "image/png", "",
             4000, FALSE, NULL),
    Response("https://cdn.example.com/fonts.json", "fetch", "application/json",
             "", 4000, TRUE, JObj(<<F("products", JArr(<<EntryHalf>>))>>)),
    Response("https://www.rona.ca/api/dump", "fetch", "application/json",
             "6000000", 4000, TRUE, JObj(<<F("products", JArr(<<EntryHalf>>))>>)),
    Response("https://www.rona.ca/api/export", "xhr", "application/json", "",
             6000000, TRUE, JObj(<<F("products", JArr(<<EntryHalf>>))>>)) }

Responses == RetainedResponses \cup DroppedResponses

\* ------------------------------------------------------------ scrapeStore

VARIABLES
  pc,                 \* the position of scrapeStore
  tiles,              \* the tiles of the loaded page, as $$eval returns them
  responseCount,      \* responseUrls.length
  candidateResponses,
  pending,            \* responses whose handler awaits res.text()
  captured,
  tilesCount,
  parsedCount,
  keptCount,
  products,
  matched,            \* extractedFromJson.matched of the reconciler call
  reconcilerCalls,    \* the number of calls of extractProductsFromCaptured
  domRuns,            \* the number of calls of extractProducts
  output,             \* what writeOutput wrote for the store
  error,              \* the error the try block raised, '' for none
  outcome,            \* "pending", "returned" or "threw"
  result,             \* the list scrapeStore returns
  browserOpen,
  thrown,             \* the error scrapeStore rejects with, '' for none
  fn,                 \* the function a caller applies on its own, '' for none
  arg,                \* its argument
  ret,                \* what it returned, UNDEF before the call
  env,                \* the texts of SHARD_INDEX and TOTAL_SHARDS, '' when unset
  stores,             \* the number of stores of stores.json
  config,             \* what getShardConfig returned
  shardStores,        \* the indices in stores.json of the stores of the shard
  cursor,             \* the position of the runner's loop in shardStores
  summary,            \* the counters of the runner's summary
  scraped,            \* the calls of scrapeStore: the store and how it ended
  mainError,          \* the error main rejects with, '' for none
  attempt,            \* the loop counter of loadAllProducts
  previousCount,      \* its high-water mark of tiles
  clicks              \* the load-more controls it clicked

\* the variables of the shard runner
shardVars ==
  <<env, stores, config, shardStores, cursor, summary, scraped, mainError>>

\* the variables of loadAllProducts
loadVars == <<attempt, previousCount, clicks>>

vars ==
  <<pc, tiles, responseCount, candidateResponses, pending, captured,
    tilesCount, parsedCount, keptCount, products, matched, reconcilerCalls,
    domRuns, output, error, outcome, result, browserOpen, thrown, fn, arg, ret,
    shardVars, loadVars>>

NoConfig == [shardIndex |-> 0, totalShards |-> 0]

NoSummary ==
  [storesTotal |-> 0, storesOk |-> 0, storesBlocked |-> 0, storesError |-> 0]

\* the shard runner is not running
NoShard ==
  /\ env = <<"", "">>
  /\ stores = 0
  /\ config = NoConfig
  /\ shardStores = <<>>
  /\ cursor = 0
  /\ summary = NoSummary
  /\ scraped = <<>>
  /\ mainError = ""

\* loadAllProducts is not running
NoLoad == attempt = 0 /\ previousCount = 0 /\ clicks = 0

\* no function is applied on its own
NoCall == fn = "" /\ arg = <<>> /\ ret = UNDEF

NoOutput == [written |-> FALSE, items |-> <<>>, tiles |-> 0, parsedCount |-> 0,
             keptCount |-> 0]

InitCounters ==
  /\ responseCount = 0
  /\ candidateResponses = 0
  /\ pending = <<>>
  /\ parsedCount = 0
  /\ keptCount = 0
  /\ products = <<>>
  /\ matched = NoMatch
  /\ reconcilerCalls = 0
  /\ domRuns = 0
  /\ output = NoOutput
  /\ error = ""
  /\ outcome = "pending"
  /\ result = <<>>
  /\ thrown = ""

InitLocals == InitCounters /\ NoCall /\ NoShard /\ NoLoad

Init ==
  /\ pc = "launch"
  /\ tiles = <<>>
  /\ captured = <<>>
  /\ tilesCount = 0
  /\ browserOpen = FALSE
  /\ InitLocals

\* chromium.launch, newContext, newPage and page.on('response', ...)
Launch ==
  /\ pc = "launch"
  /\ pc' = "goto"
  /\ browserOpen' = TRUE
  /\ UNCHANGED <<tiles, responseCount, candidateResponses, pending, captured,
                 tilesCount, parsedCount, keptCount, products, matched,
                 reconcilerCalls, domRuns, output, error, outcome, result>>
  /\ UNCHANGED <<thrown, fn, arg, ret, shardVars, loadVars>>

\* the page is open and the reconciler has not read the buffer yet
Capturing == pc \in {"goto", "count", "fallback"}

\* the response handler up to its await of res.text()
handleResponse(res) ==
  /\ Capturing
  /\ responseCount' = responseCount + 1
  /\ candidateResponses' =
       IF capturedType(res.resourceType) /\ matchesCapture(res.url)
         THEN candidateResponses + 1 ELSE candidateResponses
  /\ pending' = IF passesHead(res, Len(captured)) THEN Append(pending, res)
                ELSE pending
  /\ UNCHANGED <<pc, tiles, captured, tilesCount, parsedCount, keptCount,
                 products, matched, reconcilerCalls, domRuns, output, error,
                 outcome, result, browserOpen>>
  /\ UNCHANGED <<thrown, fn, arg, ret, shardVars, loadVars>>

\* a response event of the run
HandlerStart(res) == responseCount < MaxResponses /\ handleResponse(res)

\* the response handler from the body it awaited to its end
HandlerFinish(i) ==
  /\ Capturing
  /\ i \in 1..Len(pending)
  /\ pending' = SubSeq(pending, 1, i - 1) \o SubSeq(pending, i + 1, Len(pending))
  /\ captured' = IF passesBody(pending[i])
                   THEN Append(captured, captureOf(pending[i]))
                   ELSE captured
  /\ UNCHANGED <<pc, tiles, responseCount, candidateResponses, tilesCount,
                 parsedCount, keptCount, products, matched, reconcilerCalls,
                 domRuns, output, error, outcome, result, browserOpen>>
  /\ UNCHANGED <<thrown, fn, arg, ret, shardVars, loadVars>>

\* page.goto, handleOneTrust and loadAllProducts: the page shows its tiles
LoadPage ==
  /\ pc = "goto"
  /\ \E t \in SeqsUpTo(TileKinds, MaxRunTiles) : tiles' = t
  /\ pc' = "count"
  /\ UNCHANGED <<responseCount, candidateResponses, pending, captured,
                 tilesCount, parsedCount, keptCount, products, matched,
                 reconcilerCalls, domRuns, output, error, outcome, result,
                 browserOpen>>
  /\ UNCHANGED <<thrown, fn, arg, ret, shardVars, loadVars>>

\* a tile test that holds for every count, the variant against which the
\* guard of the fallback block is compared
anyTileCount(count) == count >= 0

\* tilesCount === 0
noTiles(count) == count = 0

\* tilesCount = await tilesLocator.count()
CountTiles ==
  /\ pc = "count"
  /\ tilesCount' = Len(tiles)
  /\ pc' = IF noTiles(Len(tiles)) THEN "fallback" ELSE "dom"
  /\ UNCHANGED <<tiles, responseCount, candidateResponses, pending, captured,
                 parsedCount, keptCount, products, matched, reconcilerCalls,
                 domRuns, output, error, outcome, result, browserOpen>>
  /\ UNCHANGED <<thrown, fn, arg, ret, shardVars, loadVars>>

\* a DOM pass that runs whatever the fallback found, the variant against
\* which the guard of the DOM block is compared
alwaysDomPass(list) == Len(list) >= 0

\* products.length === 0 before the DOM pass
needsDomPass(list) == Len(list) = 0

\* captured.length > 0
hasCaptures(list) == Len(list) > 0

\* the block of tilesCount === 0
Fallback ==
  /\ pc = "fallback"
  /\ IF hasCaptures(captured)
       THEN \E extractedFromJson \in {extractProductsFromCaptured(captured)} :
                /\ reconcilerCalls' = reconcilerCalls + 1
                /\ IF extractedFromJson.threw
                     THEN /\ error' = "Invalid URL"
                          /\ pc' = "catch"
                          /\ UNCHANGED <<products, keptCount, parsedCount, matched>>
                     ELSE /\ matched' = extractedFromJson.matched
                          /\ IF Len(extractedFromJson.products) > 0
                               THEN /\ products' = extractedFromJson.products
                                    /\ keptCount' = Len(extractedFromJson.products)
                                    /\ parsedCount' = Len(extractedFromJson.products)
                               ELSE UNCHANGED <<products, keptCount, parsedCount>>
                          /\ pc' = IF needsDomPass(products') THEN "dom" ELSE "write"
                          /\ UNCHANGED error
       ELSE /\ pc' = IF needsDomPass(products) THEN "dom" ELSE "write"
            /\ UNCHANGED <<products, keptCount, parsedCount, matched,
                           reconcilerCalls, error>>
  /\ UNCHANGED <<tiles, responseCount, candidateResponses, pending, captured,
                 tilesCount, domRuns, output, outcome, result, browserOpen>>
  /\ UNCHANGED <<thrown, fn, arg, ret, shardVars, loadVars>>

\* the block of products.length === 0
DomPass ==
  /\ pc = "dom"
  /\ domRuns' = domRuns + 1
  /\ \E extracted \in {extractProducts(tiles)} :
         IF extracted.threw
           THEN /\ error' = "Invalid URL"
                /\ pc' = "catch"
                /\ UNCHANGED <<products, parsedCount, keptCount>>
           ELSE /\ products' = extracted.products
                /\ parsedCount' = extracted.parsedCount
                /\ keptCount' = extracted.keptCount
                /\ pc' = "write"
                /\ UNCHANGED error
  /\ UNCHANGED <<tiles, responseCount, candidateResponses, pending, captured,
                 tilesCount, matched, reconcilerCalls, output, outcome, result,
                 browserOpen>>
  /\ UNCHANGED <<thrown, fn, arg, ret, shardVars, loadVars>>

\* writeOutput({ store, items, stats })
written(items) ==
  [written |-> TRUE, items |-> items, tiles |-> tilesCount,
   parsedCount |-> parsedCount, keptCount |-> keptCount]

\* writeNetworkDebug, writeOutput, logStoreSummary and return products
WriteOutput ==
  /\ pc = "write"
  /\ output' = written(products)
  /\ result' = products
  /\ outcome' = "returned"
  /\ pc' = "finally"
  /\ UNCHANGED <<tiles, responseCount, candidateResponses, pending, captured,
                 tilesCount, parsedCount, keptCount, products, matched,
                 reconcilerCalls, domRuns, error, browserOpen>>
  /\ UNCHANGED <<thrown, fn, arg, ret, shardVars, loadVars>>

\* an awaited page or file operation of the try block rejects
CollaboratorFails ==
  /\ pc \in {"goto", "count", "fallback", "dom", "write"}
  /\ error' = "collaborator"
  /\ pc' = "catch"
  /\ UNCHANGED <<tiles, responseCount, candidateResponses, pending, captured,
                 tilesCount, parsedCount, keptCount, products, matched,
                 reconcilerCalls, domRuns, output, outcome, result, browserOpen>>
  /\ UNCHANGED <<thrown, fn, arg, ret, shardVars, loadVars>>

\* a catch block that returns the products it has, the variant against
\* which the throw of the catch block is compared
CatchSwallows ==
  /\ pc = "catch"
  /\ output' = written(products)
  /\ outcome' = "returned"
  /\ result' = products
  /\ pc' = "finally"
  /\ UNCHANGED <<tiles, responseCount, candidateResponses, pending, captured,
                 tilesCount, parsedCount, keptCount, products, matched,
                 reconcilerCalls, domRuns, error, browserOpen>>
  /\ UNCHANGED <<thrown, fn, arg, ret, shardVars, loadVars>>

\* the catch block: logStoreSummary, writeNetworkDebug, writeOutput, throw
Catch ==
  /\ pc = "catch"
  /\ output' = written(products)
  /\ outcome' = "threw"
  /\ thrown' = error
  /\ pc' = "finally"
  /\ UNCHANGED <<tiles, responseCount, candidateResponses, pending, captured,
                 tilesCount, parsedCount, keptCount, products, matched,
                 reconcilerCalls, domRuns, error, result, browserOpen>>
  /\ UNCHANGED <<fn, arg, ret, shardVars, loadVars>>

\* writeNetworkDebug or writeOutput rejects in the catch block: its error
\* leaves the block in place of the one caught
CatchFails ==
  /\ pc = "catch"
  /\ outcome' = "threw"
  /\ thrown' = "write"
  /\ pc' = "finally"
  /\ UNCHANGED <<tiles, responseCount, candidateResponses, pending, captured,
                 tilesCount, parsedCount, keptCount, products, matched,
                 reconcilerCalls, domRuns, output, error, result, browserOpen>>
  /\ UNCHANGED <<fn, arg, ret, shardVars, loadVars>>

\* the finally block: context.close and browser.close
Finally ==
  /\ pc = "finally"
  /\ browserOpen' = FALSE
  /\ pc' = "done"
  /\ UNCHANGED <<tiles, responseCount, candidateResponses, pending, captured,
                 tilesCount, parsedCount, keptCount, products, matched,
                 reconcilerCalls, domRuns, output, error, outcome, result>>
  /\ UNCHANGED <<thrown, fn, arg, ret, shardVars, loadVars>>

\* context.close rejects in the finally block: its error replaces the
\* return or the throw under way and browser.close is not reached
FinallyFails ==
  /\ pc = "finally"
  /\ outcome' = "threw"
  /\ thrown' = "close"
  /\ pc' = "done"
  /\ UNCHANGED <<tiles, responseCount, candidateResponses, pending, captured,
                 tilesCount, parsedCount, keptCount, products, matched,
                 reconcilerCalls, domRuns, output, error, result, browserOpen>>
  /\ UNCHANGED <<fn, arg, ret, shardVars, loadVars>>

\* chromium.launch returns the browser and newContext or newPage rejects,
\* ahead of the try block: scrapeStore rejects with that error
ContextFails ==
  /\ pc = "launch"
  /\ browserOpen' = TRUE
  /\ outcome' = "threw"
  /\ thrown' = "context"
  /\ pc' = "done"
  /\ UNCHANGED <<tiles, responseCount, candidateResponses, pending, captured,
                 tilesCount, parsedCount, keptCount, products, matched,
                 reconcilerCalls, domRuns, output, error, result>>
  /\ UNCHANGED <<fn, arg, ret, shardVars, loadVars>>

Next ==
  \/ Launch
  \/ \E res \in Responses : HandlerStart(res)
  \/ \E i \in 1..MaxResponses : HandlerFinish(i)
  \/ LoadPage
  \/ CountTiles
  \/ Fallback
  \/ DomPass
  \/ WriteOutput
  \/ CollaboratorFails
  \/ Catch
  \/ Finally

Spec == Init /\ [][Next]_vars

\* scrapeStore with collaborators that may also fail ahead of the try
\* block, in the catch and in the finally block
NextFaults == Next \/ ContextFails \/ CatchFails \/ FinallyFails

SpecFaults == Init /\ [][NextFaults]_vars

\* The DOM pass on its own: scrapeStore about to run extractProducts on a
\* page with any tiles, no response having been captured.
InitDom ==
  /\ pc = "dom"
  /\ tiles \in SeqsUpTo(TileKinds, MaxTiles)
  /\ tilesCount = Len(tiles)
  /\ captured = <<>>
  /\ browserOpen = TRUE
  /\ InitLocals

\* The reconciler on its own: scrapeStore has counted no tile and the
\* buffer holds any captures the handler retains.
InitRec ==
  /\ pc = "fallback"
  /\ tiles = <<>>
  /\ tilesCount = 0
  /\ captured \in SeqsUpTo({captureOf(res) : res \in RetainedResponses}, MaxCaptured)
  /\ browserOpen = TRUE
  /\ InitLocals

\* The extraction engine from either of these states on, without failing
\* collaborators.
InitEngine == InitDom \/ InitRec

NextEngine == Fallback \/ DomPass \/ WriteOutput \/ Catch \/ Finally

SpecEngine == InitEngine /\ [][NextEngine]_vars

\* The capture buffer on its own: the page is loading and issues a burst of
\* up to MaxBurst responses, whose handlers interleave at their await of
\* res.text().
MaxBurst == 22

\* a response of the burst that the handler retains, and one it drops
BurstResponses ==
  { JsonResponse("https://www.rona.ca/api/items", JObj(<<F("items", JArr(<<>>))>>)),
    Response("https://www.rona.ca/wcs/hero.png", "image", "image/png", "",
             4000, FALSE, NULL) }

InitCapture ==
  /\ pc = "goto"
  /\ tiles = <<>>
  /\ captured = <<>>
  /\ tilesCount = 0
  /\ browserOpen = TRUE
  /\ InitLocals

\* a response event of the burst
BurstStart(res) == responseCount < MaxBurst /\ handleResponse(res)

NextCapture ==
  \/ \E res \in BurstResponses : BurstStart(res)
  \/ \E i \in 1..MaxBurst : HandlerFinish(i)

SpecCapture == InitCapture /\ [][NextCapture]_vars

\* The functions of the engine on their own: a caller applies one of them
\* to an argument of a bounded set.
MaxTextLen == 5

MaxPrice == 40

RECURSIVE TextsOfLen(_, _)
\* the texts of n characters of the set chars
TextsOfLen(chars, n) ==
  IF n = 0 THEN {""}
  ELSE {c \o t : c \in chars, t \in TextsOfLen(chars, n - 1)}

TextsUpTo(chars, n) == UNION {TextsOfLen(chars, k) : k \in 0..n}

\* price texts: digits, both separators and another character
PriceChars == {"1", "2", ".", ",", "$"}

ListedPriceTexts == {"19.99", "19,99", "1,234.56", "1.234,56", "$1,234"}

PriceTexts == TextsUpTo(PriceChars, MaxTextLen) \cup ListedPriceTexts

\* prices: null, zero, a negative and the positive integers up to MaxPrice
PriceValues == {NULL} \cup {Num(n, 0) : n \in (-1)..MaxPrice}

ListedPricePairs ==
  { <<Num(100, 0), Num(50, 0)>>, <<Num(100, 0), Num(60, 0)>>,
    <<Num(100, 0), Num(100, 0)>>, <<Num(100, 0), Num(120, 0)>>,
    <<NULL, Num(50, 0)>>, <<Num(1999, 2), Num(1009, 2)>> }

PricePairs == (PriceValues \X PriceValues) \cup ListedPricePairs

\* selected arrays: up to MaxEntries entries of the kinds above, and a batch
\* of ten well-formed entries of which the 2nd, 5th and 9th have no URL
MaxEntries == 3

EntryKinds ==
  { EntryHalf, EntryLow, EntryNoUrl, EntryDup, EntryRounded, EntryArrayName,
    EntryBadUrl, EntryLamp }

ItemEntry(k) ==
  Entry(JStr("Item " \o ToString(k)), JStr("/item/" \o ToString(k)),
        Num(100, 0), Num(40, 0))

UrllessEntry(k) ==
  JObj(<<F("name", JStr("Item " \o ToString(k))),
         F("regularPrice", Num(100, 0)), F("salePrice", Num(40, 0))>>)

BatchOfTen ==
  [k \in 1..10 |-> IF k \in {2, 5, 9} THEN UrllessEntry(k) ELSE ItemEntry(k)]

SelectedArrays == SeqsUpTo(EntryKinds, MaxEntries) \cup {BatchOfTen}

\* JSON bodies: values nested up to MaxDepth deep
MaxDepth == 3

JsonLeaves == {NULL, JStr("x"), JObj(<<>>), JArr(<<>>)}

\* the values that hold a value of S as a member or as an element
Wrap(S) ==
  {JObj(<<F("a", v)>>) : v \in S}
    \cup {JObj(<<F("a", v), F("b", JArr(<<JObj(<<>>)>>))>>) : v \in S}
    \cup {JArr(<<v>>) : v \in S}
    \cup {JArr(<<v, JObj(<<>>)>>) : v \in S}
    \cup {JArr(<<v, NULL>>) : v \in S}

RECURSIVE JsonValues(_)
JsonValues(d) ==
  IF d = 0 THEN JsonLeaves ELSE JsonLeaves \cup Wrap(JsonValues(d - 1))

JsonBodies == JsonValues(MaxDepth)

\* entries and alias lists: an entry holds, under a and under b, a value
\* that is null, falsy, a text, an object or an array; a list holds up to
\* MaxAliases alias paths over these keys, an absent key and array indices
MaxAliases == 2

FieldLeaves == {NULL, JStr(""), Num(0, 0), JStr("x"), Num(5, 0)}

FieldValues ==
  FieldLeaves
    \cup {JObj(<<F("b", v)>>) : v \in FieldLeaves}
    \cup {JArr(<<v>>) : v \in FieldLeaves}
    \cup {JArr(<<JObj(<<F("b", v)>>), JStr("y")>>) : v \in FieldLeaves}
    \cup {JArr(<<>>), JObj(<<>>)}

PickEntries ==
  {JObj(<<F("a", v)>>) : v \in FieldValues}
    \cup {JObj(<<F("a", v), F("b", w)>>) : v \in FieldValues, w \in FieldLeaves}
    \cup {NULL, JStr("x"), JObj(<<>>), JArr(<<JStr("x")>>)}

AliasPaths == {"a", "b", "c", "a.b", "a.0", "a.1", "a.0.b", "a.00", "0"}

AliasLists == SeqsUpTo(AliasPaths, MaxAliases)

PickArgs == PickEntries \X AliasLists

\* the variables of scrapeStore but its position
runVars ==
  <<tiles, responseCount, candidateResponses, pending, captured, tilesCount,
    parsedCount, keptCount, products, matched, reconcilerCalls, domRuns,
    output, error, outcome, result, browserOpen, thrown>>

\* no run of scrapeStore is under way
InitIdle ==
  /\ pc = "call"
  /\ tiles = <<>>
  /\ captured = <<>>
  /\ tilesCount = 0
  /\ browserOpen = FALSE
  /\ InitCounters
  /\ ret = UNDEF
  /\ NoShard
  /\ NoLoad

InitCalls ==
  /\ InitIdle
  /\ \/ fn = "parsePrice" /\ arg \in PriceTexts
     \/ fn = "computeDiscountPct" /\ arg \in PricePairs
     \/ fn = "normalizeCapturedProducts" /\ arg \in SelectedArrays
     \/ fn = "collectCandidateArrays" /\ arg \in JsonBodies
     \/ fn = "pickFirstValue" /\ arg \in PickArgs

\* the call returns value
Returns(value) ==
  /\ ret' = value
  /\ pc' = "called"
  /\ UNCHANGED <<runVars, fn, arg, shardVars, loadVars>>

CallParsePrice ==
  /\ pc = "call"
  /\ fn = "parsePrice"
  /\ Returns(parsePrice(arg))

CallComputeDiscountPct ==
  /\ pc = "call"
  /\ fn = "computeDiscountPct"
  /\ Returns(computeDiscountPct(arg[1], arg[2]))

CallNormalizeCapturedProducts ==
  /\ pc = "call"
  /\ fn = "normalizeCapturedProducts"
  /\ Returns(normalizeCapturedProducts(arg))

CallCollectCandidateArrays ==
  /\ pc = "call"
  /\ fn = "collectCandidateArrays"
  /\ Returns(collectCandidateArrays(arg))

CallPickFirstValue ==
  /\ pc = "call"
  /\ fn = "pickFirstValue"
  /\ Returns(pickFirstValue(arg[1], arg[2]))

NextCalls ==
  \/ CallParsePrice
  \/ CallComputeDiscountPct
  \/ CallNormalizeCapturedProducts
  \/ CallCollectCandidateArrays
  \/ CallPickFirstValue

SpecCalls == InitCalls /\ [][NextCalls]_vars

\* -------------------------------------------------------- loadAllProducts
\* The page is a collaborator: at each iteration it shows any number of
\* tiles up to MaxPageTiles and a load-more control that clickFirstVisible
\* clicks or not.  Every awaited page operation returns.

MaxPageTiles == 2

\* the bound of the for loop
maxAttempts == 100

\* if (currentCount > previousCount) previousCount = currentCount
highWater(previous, current) == IF current > previous THEN current ELSE previous

\* a loop that goes on whether or not a control was clicked, the variant
\* against which the break of the loop is compared
goesOnAnyway(loadMoreVisible) == loadMoreVisible \in BOOLEAN

\* the loop goes on: !loadMoreVisible does not hold
goesOn(loadMoreVisible) == loadMoreVisible

InitLoad ==
  /\ pc = "tally"
  /\ tiles = <<>>
  /\ captured = <<>>
  /\ tilesCount = 0
  /\ browserOpen = TRUE
  /\ InitCounters
  /\ NoCall
  /\ NoShard
  /\ NoLoad

\* the head of an iteration: the tiles are counted and the mark is updated
TallyTiles ==
  /\ pc = "tally"
  /\ attempt < maxAttempts
  /\ \E currentCount \in 0..MaxPageTiles :
       previousCount' = highWater(previousCount, currentCount)
  /\ pc' = "click"
  /\ UNCHANGED <<attempt, clicks>>
  /\ UNCHANGED <<runVars, fn, arg, ret, shardVars>>

\* the rest of an iteration: clickFirstVisible clicks a load-more control
\* or finds none; after a click the page is given time to load
ClickLoadMore ==
  /\ pc = "click"
  /\ \E loadMoreVisible \in BOOLEAN :
       /\ clicks' = IF loadMoreVisible THEN clicks + 1 ELSE clicks
       /\ IF goesOn(loadMoreVisible)
            THEN attempt' = attempt + 1 /\ pc' = "tally"
            ELSE attempt' = attempt /\ pc' = "loaded"
  /\ UNCHANGED previousCount
  /\ UNCHANGED <<runVars, fn, arg, ret, shardVars>>

\* attempt < 100 fails: the loop is left
LeaveLoop ==
  /\ pc = "tally"
  /\ ~(attempt < maxAttempts)
  /\ pc' = "loaded"
  /\ UNCHANGED <<runVars, fn, arg, ret, shardVars, loadVars>>

NextLoad == TallyTiles \/ ClickLoadMore \/ LeaveLoop

SpecLoad == InitLoad /\ [][NextLoad]_vars

\* every awaited page operation returns: a step that can be taken is taken
SpecLoadFair == SpecLoad /\ WF_vars(NextLoad)

\* ------------------------------------------------------- the shard runner
\* main of run_rona_shard.mjs: the stores of stores.json are numbered from
\* 0; scrapeStore is a collaborator whose call ends "ok" (it returns a
\* result), "blocked" (it returns a result of status 'blocked') or "error"
\* (it rejects).

MaxStores == 4

MaxEnvLen == 2

\* the texts of an environment variable: '' stands for an unset variable
EnvChars == {"0", "1", "2", "3", "-", ".", "x"}

EnvTexts == TextsUpTo(EnvChars, MaxEnvLen) \cup {"1.5", "2.0", "2px"}

\* Number.parseInt(text, 10) of a text without white space: NULL is NaN
parseIntSigned(text, digits) ==
  IF ~IsNum(digits) THEN NULL
  ELSE IF Head(text) = "-" THEN Num(0 - digits.m, 0)
  ELSE digits

parseInt10(text) ==
  IF text = "" THEN NULL
  ELSE IF Head(text) \in {"-", "+"} THEN parseIntSigned(text, ParseInt(Tail(text)))
  ELSE ParseInt(text)

\* getShardConfig from the two numbers parseInt gave: [threw, error,
\* shardIndex, totalShards]
checkShardConfig(shardIndex, totalShards) ==
  IF ~IsNum(shardIndex) \/ ~IsNum(totalShards)
    THEN [threw |-> TRUE, error |-> "SHARD_INDEX and TOTAL_SHARDS must be integers.",
          shardIndex |-> 0, totalShards |-> 0]
  ELSE IF shardIndex.m < 1 \/ shardIndex.m > totalShards.m
    THEN [threw |-> TRUE, error |-> "SHARD_INDEX must be between 1 and TOTAL_SHARDS.",
          shardIndex |-> 0, totalShards |-> 0]
  ELSE [threw |-> FALSE, error |-> "",
        shardIndex |-> shardIndex.m, totalShards |-> totalShards.m]

getShardConfig(e) == checkShardConfig(parseInt10(e[1]), parseInt10(e[2]))

\* index % totalShards === shardIndex - 1
inShard(index, totalShards, shardIndex) == index % totalShards = shardIndex - 1

\* stores.filter((_, index) => ...), as the list of the indices kept
shardFilter(n, totalShards, shardIndex) ==
  SelectSeq([k \in 1..n |-> k - 1],
            LAMBDA index : inShard(index, totalShards, shardIndex))

\* a summary that leaves out the stores whose scrapeStore rejects, the
\* variant against which the catch block of the loop is compared
tallyReturned(s, ending) ==
  IF ending = "blocked" THEN [s EXCEPT !.storesBlocked = @ + 1]
  ELSE IF ending = "ok" THEN [s EXCEPT !.storesOk = @ + 1]
  ELSE s

\* the counter the loop body increments for a call that ended this way
tally(s, ending) ==
  IF ending = "error" THEN [s EXCEPT !.storesError = @ + 1]
  ELSE IF ending = "blocked" THEN [s EXCEPT !.storesBlocked = @ + 1]
  ELSE [s EXCEPT !.storesOk = @ + 1]

StoreEndings == {"ok", "blocked", "error"}

InitShard ==
  /\ pc = "main"
  /\ tiles = <<>>
  /\ captured = <<>>
  /\ tilesCount = 0
  /\ browserOpen = FALSE
  /\ InitCounters
  /\ NoCall
  /\ NoLoad
  /\ env \in EnvTexts \X EnvTexts
  /\ stores \in 0..MaxStores
  /\ config = NoConfig
  /\ shardStores = <<>>
  /\ cursor = 0
  /\ summary = NoSummary
  /\ scraped = <<>>
  /\ mainError = ""

\* const { shardIndex, totalShards } = getShardConfig()
GetShardConfig ==
  /\ pc = "main"
  /\ \E c \in {getShardConfig(env)} :
       IF c.threw
         THEN /\ mainError' = c.error
              /\ pc' = "exit"
              /\ UNCHANGED config
         ELSE /\ config' = [shardIndex |-> c.shardIndex, totalShards |-> c.totalShards]
              /\ pc' = "filter"
              /\ UNCHANGED mainError
  /\ UNCHANGED <<env, stores, shardStores, cursor, summary, scraped>>
  /\ UNCHANGED <<runVars, fn, arg, ret, loadVars>>

\* stores.json is read and filtered, and the summary is set up
FilterStores ==
  /\ pc = "filter"
  /\ \E kept \in {shardFilter(stores, config.totalShards, config.shardIndex)} :
       /\ shardStores' = kept
       /\ summary' = [NoSummary EXCEPT !.storesTotal = Len(kept)]
  /\ cursor' = 1
  /\ pc' = "loop"
  /\ UNCHANGED <<env, stores, config, scraped, mainError>>
  /\ UNCHANGED <<runVars, fn, arg, ret, loadVars>>

\* one iteration of the loop over shardStores: scrapeStore is awaited and
\* the try, catch and finally blocks run
ScrapeNextStore ==
  /\ pc = "loop"
  /\ cursor <= Len(shardStores)
  /\ \E ending \in StoreEndings :
       /\ scraped' = Append(scraped, [store |-> shardStores[cursor], ending |-> ending])
       /\ summary' = tally(summary, ending)
  /\ cursor' = cursor + 1
  /\ UNCHANGED <<pc, env, stores, config, shardStores, mainError>>
  /\ UNCHANGED <<runVars, fn, arg, ret, loadVars>>

\* the loop has ended: summary.json is written
WriteSummary ==
  /\ pc = "loop"
  /\ cursor > Len(shardStores)
  /\ pc' = "exit"
  /\ UNCHANGED <<runVars, fn, arg, ret, shardVars, loadVars>>

NextShard == GetShardConfig \/ FilterStores \/ ScrapeNextStore \/ WriteSummary

SpecShard == InitShard /\ [][NextShard]_vars

\* ----------------------------------------------------------------- claims

\* the engine has returned its list to scrapeStore's caller
Returned == pc = "done" /\ outcome = "returned"

\* the DOM pass has run and returned
DomReturned == domRuns > 0 /\ error = "" /\ pc \in {"write", "finally", "done"}

\* the reconciler has run and returned
ReconcilerReturned == reconcilerCalls > 0 /\ error = ""

\* regular and sale of product p at a common scale
RegularOf(p) == Scaled(p.regularPrice, MaxE(p.regularPrice, p.salePrice))

SaleOf(p) == Scaled(p.salePrice, MaxE(p.regularPrice, p.salePrice))

IsAbsoluteUrl(url) == HasPrefix(url, "https://") \/ HasPrefix(url, "http://")

\* C1: every Product of the list either pass returns has a non-empty name, a
\* non-empty absolute url that no other Product of the list has, and a
\* non-null discountPct >= 50.
C1_EmittedProductsValid ==
  \A i \in 1..Len(products) :
    /\ products[i].name # ""
    /\ products[i].url # ""
    /\ IsAbsoluteUrl(products[i].url)
    /\ \A j \in 1..Len(products) : j # i => products[j].url # products[i].url
    /\ IsNum(products[i].discountPct)
    /\ products[i].discountPct.m >= 50

\* C2 as stated: every Product of the final list is discounted at least 50%
\* in exact arithmetic, 2 * (regular - sale) >= regular.
C2_AtLeastHalfExact ==
  Returned =>
    \A i \in 1..Len(result) :
      2 * (RegularOf(result[i]) - SaleOf(result[i])) >= RegularOf(result[i])

\* C2 as amended: every Product of the final list has positive prices with
\* sale < regular and is discounted at least 49.5% in exact arithmetic,
\* 200 * (regular - sale) >= 99 * regular (discountPct is rounded half-up
\* before the threshold of 50 is applied).
C2_AtLeastRoundedHalf ==
  Returned =>
    \A i \in 1..Len(result) :
      /\ IsNum(result[i].regularPrice) /\ IsNum(result[i].salePrice)
      /\ 0 < SaleOf(result[i]) /\ SaleOf(result[i]) < RegularOf(result[i])
      /\ 200 * (RegularOf(result[i]) - SaleOf(result[i]))
           >= 99 * RegularOf(result[i])

\* a final list holds a Product discounted less than 50% in exact arithmetic
C2_Witness ==
  /\ Returned
  /\ \E i \in 1..Len(result) :
       2 * (RegularOf(result[i]) - SaleOf(result[i])) < RegularOf(result[i])

\* what the reconciler returns for the buffer, had it been called
ReconcilerYields ==
  /\ Len(captured) > 0
  /\ ~extractProductsFromCaptured(captured).threw
  /\ Len(extractProductsFromCaptured(captured).products) >= 1

\* C3: the final list is the DOM pass's when tiles were counted; the
\* reconciler's, without a DOM pass, when no tile was counted and the
\* reconciler yields a product; and the DOM pass's, run only then, when no
\* tile was counted and the reconciler yields none.
C3_Arbitration ==
  Returned =>
    /\ tilesCount > 0 =>
         domRuns = 1 /\ result = extractProducts(tiles).products
    /\ (tilesCount = 0 /\ ReconcilerYields) =>
         domRuns = 0 /\ result = extractProductsFromCaptured(captured).products
    /\ (tilesCount = 0 /\ ~ReconcilerYields) =>
         domRuns = 1 /\ result = extractProducts(tiles).products

\* a run without tiles returned the reconciler's products
C3_Witness ==
  /\ Returned
  /\ tilesCount = 0
  /\ ReconcilerYields
  /\ domRuns = 0
  /\ Len(result) >= 1

\* C4: the reconciler is called only when no tile is counted; a run that
\* counted a tile never calls it and returns the DOM pass's list whatever
\* the buffer holds.
C4_ReconcilerOnlyWithoutTiles ==
  /\ reconcilerCalls > 0 => (Len(tiles) = 0 /\ tilesCount = 0)
  /\ Len(tiles) > 0 => (reconcilerCalls = 0 /\ matched = NoMatch)
  /\ (Returned /\ Len(tiles) > 0) => result = extractProducts(tiles).products

\* a run whose tiles were all dropped by the discount filter returned an
\* empty list although the buffer would have yielded products
C4_Witness ==
  /\ Returned
  /\ Len(tiles) > 0
  /\ result = <<>>
  /\ ReconcilerYields
  /\ reconcilerCalls = 0

\* the buffer gives the reconciler no product: no capture, no array to
\* select, or a selected array whose entries are all skipped or filtered out
NoReconciledProduct ==
  \/ Len(captured) = 0
  \/ selectBestMatch(captured, 1, NoMatch).none
  \/ /\ ~normalizeCapturedProducts(selectBestMatch(captured, 1, NoMatch).items).threw
     /\ SelectSeq(normalizeCapturedProducts(
                    selectBestMatch(captured, 1, NoMatch).items).items,
                  KeepsDiscount) = <<>>

\* C5: when no tile is counted and the reconciler yields no product, and no
\* collaborator fails, scrapeStore does not throw: it writes the output
\* with an empty item list and returns an empty list.
C5_EmptyIsNotAnError ==
  (pc = "done" /\ error # "collaborator" /\ Len(tiles) = 0 /\ NoReconciledProduct) =>
    /\ error = ""
    /\ outcome = "returned"
    /\ output.written
    /\ output.items = <<>>
    /\ result = <<>>

\* a run without tiles whose selected array was filtered out returned empty
C5_Witness ==
  /\ Returned
  /\ Len(tiles) = 0
  /\ reconcilerCalls = 1
  /\ ~matched.none
  /\ Len(matched.items) > 0
  /\ output.written
  /\ result = <<>>

\* the arrays under a well-known container key in capture i
WellKnownOf(i) ==
  { DataMember(captured[i].data, priorityKeys[k]).items :
      k \in {m \in 1..Len(priorityKeys) :
               DataMember(captured[i].data, priorityKeys[m]).kind = "arr"} }

\* the arrays under a well-known container key in all captures
AllWellKnown ==
  UNION { WellKnownOf(i) : i \in {n \in 1..Len(captured) : Truthy(captured[n].data)} }

\* the candidate arrays of the generic walk over all captures
AllCandidates ==
  UNION { {collectCandidateArrays(captured[i].data)[c].items :
             c \in 1..Len(collectCandidateArrays(captured[i].data))} :
          i \in {n \in 1..Len(captured) : Truthy(captured[n].data)} }

IsLongestOf(items, arrays) ==
  items \in arrays /\ \A a \in arrays : Len(a) <= Len(items)

\* C6: when a capture has an array under a well-known key, the reconciler
\* selects the longest such array of all captures, whatever the generic
\* walk finds.
C6_PrefersWellKnownKey ==
  (ReconcilerReturned /\ AllWellKnown # {}) =>
    /\ \E k \in 1..Len(priorityKeys) : matched.path = priorityKeys[k]
    /\ IsLongestOf(matched.items, AllWellKnown)

\* C7: when no capture has an array under a well-known key, the reconciler
\* selects the longest candidate of the generic walk over all captures.
C7_LongestCandidateOverall ==
  (ReconcilerReturned /\ AllWellKnown = {} /\ AllCandidates # {}) =>
    IsLongestOf(matched.items, AllCandidates)

\* the permutations of 1..n
Perms(n) == {f \in [1..n -> 1..n] : \A a, b \in 1..n : f[a] = f[b] => a = b}

Permuted(list, f) == [i \in 1..Len(list) |-> list[f[i]]]

\* C8: the reconciler selects the same array and returns the same products
\* for every permutation of the captures.
C8_OrderIndependent ==
  ReconcilerReturned =>
    \A f \in Perms(Len(captured)) :
      /\ extractProductsFromCaptured(Permuted(captured, f)).matched.path
           = matched.path
      /\ extractProductsFromCaptured(Permuted(captured, f)).matched.items
           = matched.items
      /\ extractProductsFromCaptured(Permuted(captured, f)).products
           = extractProductsFromCaptured(captured).products

\* C9: neither field mapping nor tile normalisation raises, whatever an
\* entry or a tile holds.
C9_MappingNeverRaises == error # "Invalid URL" /\ outcome # "threw"

\* the tiles with a name that resolve to url
NamedAt(url) ==
  { i \in 1..Len(tiles) :
      /\ tiles[i].name # ""
      /\ tiles[i].url # ""
      /\ ResolveUrl(tiles[i].url).ok
      /\ ResolveUrl(tiles[i].url).url = url }

TileUrls == { ResolveUrl(tiles[i].url).url : i \in 1..Len(tiles) }

Smallest(S) == CHOOSE i \in S : \A j \in S : i <= j

\* the set S of tiles is made of tiles that each keep the discount
AllKept(S) == \A i \in S : KeepsDiscount(mapTile(tiles[i]).product)

\* the list holds exactly one Product with url, the one of tile i
OnlyProductIs(url, i) ==
  /\ Cardinality({k \in 1..Len(products) : products[k].url = url}) = 1
  /\ \E k \in 1..Len(products) : products[k] = mapTile(tiles[i]).product

\* C10 as stated: for any set of two or more named tiles of one URL that
\* each have discountPct >= 50, the DOM pass emits exactly one Product with
\* that URL, with the fields of the first tile of the set.
C10_FirstOfSetWins ==
  DomReturned =>
    \A url \in TileUrls :
      \A S \in SUBSET NamedAt(url) :
        (Cardinality(S) >= 2 /\ AllKept(S)) => OnlyProductIs(url, Smallest(S))

\* C10 as amended: the same, for the sets that hold the first named tile
\* resolving to the URL (de-duplication keeps the first named tile of a URL
\* before the discount filter is applied).
C10_FirstSeenWins ==
  DomReturned =>
    \A url \in TileUrls :
      \A S \in SUBSET NamedAt(url) :
        (Cardinality(S) >= 2 /\ AllKept(S) /\ Smallest(NamedAt(url)) \in S)
          => OnlyProductIs(url, Smallest(S))

\* a DOM pass over two kept tiles of one URL returned the first of them
C10_Witness ==
  /\ DomReturned
  /\ \E url \in TileUrls :
       /\ Cardinality(NamedAt(url)) >= 2
       /\ AllKept(NamedAt(url))
       /\ OnlyProductIs(url, Smallest(NamedAt(url)))

\* C11: under every interleaving of the response handlers, the buffer never
\* holds more than maxCaptures captures.
C11_BufferCapped == Len(captured) <= maxCaptures

\* function f has been applied to argument a
Called(f, a) == pc = "called" /\ fn = f /\ arg = a

\* C12: parsePrice maps "19.99", "19,99", "1,234.56", "1.234,56" and
\* "$1,234" to 19.99, 19.99, 1234.56, 1234.56 and 1234.
C12_ListedPrices ==
  /\ Called("parsePrice", "19.99") => ret = Num(1999, 2)
  /\ Called("parsePrice", "19,99") => ret = Num(1999, 2)
  /\ Called("parsePrice", "1,234.56") => ret = Num(123456, 2)
  /\ Called("parsePrice", "1.234,56") => ret = Num(123456, 2)
  /\ Called("parsePrice", "$1,234") => ret = Num(1234, 0)

\* the text without the characters that are no digit, '.' or ','
Stripped(text) == KeepChars(text, Digits \cup {".", ","})

\* the positions of the separators of kinds in text t
SepPositions(t, kinds) == {i \in 1..Len(t) : Ch(t, i) \in kinds}

\* the number with the digits of int before and of frac after the point
Decimal(int, frac) ==
  IF int \o frac = "" THEN NULL ELSE Num(DigitsToInt(int \o frac), Len(frac))

\* t read with the separator at position point as its decimal point and
\* every other separator removed
PointAt(t, point) ==
  Decimal(KeepChars(SubSeq(t, 1, point - 1), Digits),
          KeepChars(SubSeq(t, point + 1, Len(t)), Digits))

\* the n-th position of the set S of positions of t, the end of t when S
\* has fewer
NthOf(S, t, n) ==
  IF Cardinality(S) >= n
    THEN CHOOSE i \in S : Cardinality({j \in S : j <= i}) = n
    ELSE Len(t) + 1

\* t, a text of digits and separators of kind d, read up to the second d,
\* the first d being the decimal point
UpToSecond(t, d) ==
  Decimal(SubSeq(t, 1, NthOf(SepPositions(t, {d}), t, 1) - 1),
          IF Cardinality(SepPositions(t, {d})) = 0 THEN ""
          ELSE SubSeq(t, NthOf(SepPositions(t, {d}), t, 1) + 1,
                      NthOf(SepPositions(t, {d}), t, 2) - 1))

LastSep(t) == CHOOSE i \in SepPositions(t, {".", ","}) :
                \A j \in SepPositions(t, {".", ","}) : j <= i

HasBoth(t) == SepPositions(t, {"."}) # {} /\ SepPositions(t, {","}) # {}

OnlyKind(t) == IF SepPositions(t, {","}) # {} THEN "," ELSE "."

\* the reading of C13 as stated: with both separators the rightmost is the
\* decimal point and every other separator is removed
RightmostOnly(t) ==
  IF t = "" THEN NULL
  ELSE IF HasBoth(t) THEN PointAt(t, LastSep(t))
  ELSE UpToSecond(t, OnlyKind(t))

\* the reading of C13 as amended: with both separators the separators of
\* the kind that is not the rightmost's are removed
RightmostKind(t) ==
  IF t = "" THEN NULL
  ELSE IF HasBoth(t)
    THEN UpToSecond(KeepChars(t, Digits \cup {Ch(t, LastSep(t))}),
                    Ch(t, LastSep(t)))
  ELSE UpToSecond(t, OnlyKind(t))

\* C13 as stated: parsePrice strips the characters that are no digit, '.'
\* or ','; with both separators it reads the rightmost as the decimal point
\* and removes every other separator; with ',' only it reads ',' as the
\* decimal separator; it gives null for an empty stripped text or when no
\* number results.
C13_RightmostSeparatorOnly ==
  (pc = "called" /\ fn = "parsePrice") => ret = RightmostOnly(Stripped(arg))

\* C13 as amended: with both separators the kind of the rightmost is the
\* decimal kind and the separators of the other kind are removed; with ','
\* only, ',' is the decimal kind; the number is read up to the second
\* separator of the decimal kind, the first being the decimal point; null
\* for an empty stripped text or when that stretch has no digit.
C13_RightmostSeparatorKind ==
  (pc = "called" /\ fn = "parsePrice") => ret = RightmostKind(Stripped(arg))

\* parsePrice has read a text with both separators in which the decimal
\* kind occurs twice
C13_Witness ==
  /\ pc = "called" /\ fn = "parsePrice"
  /\ HasBoth(Stripped(arg))
  /\ Cardinality(SepPositions(Stripped(arg), {Ch(Stripped(arg), LastSep(Stripped(arg)))})) >= 2
  /\ IsNum(ret)
  /\ ret # RightmostOnly(Stripped(arg))

\* the integer k nearest to 100 * (R - S) / R, the upper one of two:
\* k - 1/2 <= 100 * (R - S) / R < k + 1/2
HalfUp(R, S) ==
  CHOOSE k \in 0..100 :
    (2 * k - 1) * R <= 200 * (R - S) /\ 200 * (R - S) < (2 * k + 1) * R

\* computeDiscountPct has no discount to give for regular r and sale s
NoDiscount(r, s) ==
  \/ IsNull(r) \/ IsNull(s)
  \/ r.m <= 0 \/ s.m <= 0
  \/ ~NumLt(s, r)

\* C14: computeDiscountPct returns null if either price is null or <= 0 or
\* sale >= regular, and otherwise the integer nearest to
\* 100 * (regular - sale) / regular, halves rounded up, which lies in 0..100.
C14_DiscountRoundedHalfUp ==
  (pc = "called" /\ fn = "computeDiscountPct") =>
    IF NoDiscount(arg[1], arg[2]) THEN ret = NULL
    ELSE /\ IsNum(ret) /\ ret.e = 0 /\ ret.m \in 0..100
         /\ ret.m = HalfUp(Scaled(arg[1], MaxE(arg[1], arg[2])),
                           Scaled(arg[2], MaxE(arg[1], arg[2])))

\* the tiles with a name and a finite resolved sale price
ParsedTiles ==
  { i \in 1..Len(tiles) :
      tiles[i].name # "" /\ IsNum(resolvePrices(tiles[i]).salePrice) }

\* C15: the DOM pass returns parsedCount equal to the number of tiles that
\* have a non-empty name and a finite resolved sale price, and keptCount
\* equal to the length of the product list it returns.
C15_CountsMatch ==
  DomReturned =>
    /\ parsedCount = Cardinality(ParsedTiles)
    /\ keptCount = Len(products)

\* the DOM pass over three named tiles discounted 50%, 25% and, from one
\* combined text, 60% returned parsedCount 3, keptCount 2 and 2 products
C15_Witness ==
  /\ DomReturned
  /\ Len(tiles) = 3
  /\ mapTile(tiles[1]).product.discountPct = Num(50, 0)
  /\ mapTile(tiles[2]).product.discountPct = Num(25, 0)
  /\ tiles[3].salePriceText = ""
  /\ mapTile(tiles[3]).product.discountPct = Num(60, 0)
  /\ parsedCount = 3
  /\ keptCount = 2
  /\ Len(products) = 2

\* scrapeStore has ended after a step of its try block failed
FailedRun == pc = "done" /\ error # ""

HasNameAndUrl(items, i) ==
  /\ Truthy(items[i]) /\ IsObjectLike(items[i])
  /\ Truthy(pickFirstValue(items[i], NameKeys))
  /\ Truthy(pickFirstValue(items[i], UrlKeys))

\* the absolute URLs of the entries that have a name and a URL
MappableUrls(items) ==
  { ResolveUrl(StringOf(pickFirstValue(items[i], UrlKeys))).url :
      i \in {k \in 1..Len(items) : HasNameAndUrl(items, k)} }

\* every URL the entries of the array give resolves to an absolute URL
AllUrlsResolve(items) ==
  \A i \in 1..Len(items) :
    (Truthy(items[i]) /\ IsObjectLike(items[i])
       /\ Truthy(pickFirstValue(items[i], UrlKeys)))
      => ResolveUrl(StringOf(pickFirstValue(items[i], UrlKeys))).ok

\* C17: normalizeCapturedProducts does not raise for an array whose entries
\* either have no URL alias or a URL that resolves, and the records it
\* returns, before the discount filter, are one per distinct absolute URL of
\* the entries that have a name and a URL, none coming from an entry without
\* any URL alias (ten well-formed entries of which three have no URL give
\* seven records).
C17_OneRecordPerUrl ==
  (pc = "called" /\ fn = "normalizeCapturedProducts") =>
    /\ AllUrlsResolve(arg) => ~ret.threw
    /\ ~ret.threw =>
         /\ Len(ret.items) = Cardinality(MappableUrls(arg))
         /\ {ret.items[k].url : k \in 1..Len(ret.items)} = MappableUrls(arg)
    /\ arg = BatchOfTen => (~ret.threw /\ Len(ret.items) = 7)

\* the batch of ten entries of which three have no URL gave seven records
C17_Witness ==
  /\ pc = "called" /\ fn = "normalizeCapturedProducts"
  /\ arg = BatchOfTen
  /\ ~ret.threw
  /\ Len(ret.items) = 7

\* the numbers of the regular-price and of the sale-price text of tile i
RegularNumbers(i) == extractPricesFromText(tiles[i].regularPriceText)

SaleNumbers(i) == extractPricesFromText(tiles[i].salePriceText)

\* the largest and the smallest number of a list that is not empty
Largest(list) ==
  CHOOSE x \in {list[k] : k \in 1..Len(list)} :
    \A k \in 1..Len(list) : NumLe(list[k], x)

Smallest_(list) ==
  CHOOSE x \in {list[k] : k \in 1..Len(list)} :
    \A k \in 1..Len(list) : NumLe(x, list[k])

\* the DOM pass has mapped the tiles
TilesMapped == domRuns > 0

\* the prices C18 gives tile i when the combined reading applies exactly
\* under condition combined (the regular price of a tile whose regular-price
\* text yields no number, or 0 first, is the matter of C19)
PricesAsClaimed(i, combined) ==
  /\ resolvePrices(tiles[i]).salePrice =
       IF combined THEN Smallest_(RegularNumbers(i))
       ELSE FirstOrNull(SaleNumbers(i))
  /\ (Len(RegularNumbers(i)) >= 1 /\ RegularNumbers(i)[1].m # 0) =>
       resolvePrices(tiles[i]).regularPrice =
         IF combined THEN Largest(RegularNumbers(i)) ELSE RegularNumbers(i)[1]

\* C18 as stated: per tile, regularPrice and salePrice are the first
\* numbers of the regular-price and of the sale-price text, except that
\* regularPrice is the largest and salePrice the smallest number of the
\* regular-price text if and only if the sale-price text yields no number
\* and the regular-price text yields two or more.
C18_CombinedIffNoSaleNumber ==
  TilesMapped =>
    \A i \in 1..Len(tiles) :
      PricesAsClaimed(i, Len(SaleNumbers(i)) = 0 /\ Len(RegularNumbers(i)) >= 2)

\* C18 as amended: the same, the exception applying if and only if the
\* sale-price text yields no number or a first number of 0, and the
\* regular-price text yields two or more numbers.
C18_CombinedIffNoSalePrice ==
  TilesMapped =>
    \A i \in 1..Len(tiles) :
      PricesAsClaimed(i, /\ (Len(SaleNumbers(i)) = 0 \/ SaleNumbers(i)[1].m = 0)
                         /\ Len(RegularNumbers(i)) >= 2)

\* the DOM pass mapped a tile whose sale-price text reads 0 and whose
\* regular-price text holds two numbers to the larger and the smaller one
C18_Witness ==
  /\ TilesMapped
  /\ \E i \in 1..Len(tiles) :
       /\ Len(SaleNumbers(i)) >= 1 /\ SaleNumbers(i)[1].m = 0
       /\ Len(RegularNumbers(i)) >= 2
       /\ resolvePrices(tiles[i]).salePrice = Smallest_(RegularNumbers(i))
       /\ resolvePrices(tiles[i]).regularPrice = Largest(RegularNumbers(i))
       /\ resolvePrices(tiles[i]).salePrice # SaleNumbers(i)[1]

\* tile i has a sale price in its sale-price text and no regular price
SaleOnly(i) == Len(SaleNumbers(i)) >= 1 /\ Len(RegularNumbers(i)) = 0

\* C19: in the DOM pass a tile whose sale-price text yields a price and for
\* which no regular price is found gets that sale price as its regular
\* price and a null discountPct, and is not in the emitted list.
C19_SaleOnlyNeverEmitted ==
  TilesMapped =>
    \A i \in 1..Len(tiles) :
      SaleOnly(i) =>
        /\ resolvePrices(tiles[i]).regularPrice = SaleNumbers(i)[1]
        /\ resolvePrices(tiles[i]).salePrice = SaleNumbers(i)[1]
        /\ mapTile(tiles[i]).product.discountPct = NULL
        /\ \A k \in 1..Len(products) :
             products[k] # mapTile(tiles[i]).product

\* the DOM pass returned its list for tiles of which one, with a name and a
\* URL, has a sale price only
C19_Witness ==
  /\ DomReturned
  /\ \E i \in 1..Len(tiles) :
       /\ SaleOnly(i)
       /\ ~mapTile(tiles[i]).skip
       /\ IsNum(resolvePrices(tiles[i]).regularPrice)
       /\ resolvePrices(tiles[i]).regularPrice = resolvePrices(tiles[i]).salePrice

\* v is a non-empty array whose elements are all objects (or arrays)
IsCandidateArray(v) ==
  /\ v.kind = "arr"
  /\ Len(v.items) > 0
  /\ \A i \in 1..Len(v.items) : v.items[i].kind \in {"obj", "arr"}

RECURSIVE ValuesIn(_)
\* the values occurring in v at any depth, as members and as elements
ValuesIn(v) ==
  {v} \cup
    (IF v.kind = "obj"
       THEN UNION {ValuesIn(v.fields[i].v) : i \in 1..Len(v.fields)}
     ELSE IF v.kind = "arr"
       THEN UNION {ValuesIn(v.items[i]) : i \in 1..Len(v.items)}
     ELSE {})

\* the candidate arrays under a key of object o
MemberArrays(o) ==
  { o.fields[i].v.items :
      i \in {k \in 1..Len(o.fields) : IsCandidateArray(o.fields[k].v)} }

\* the arrays C20 as stated has registered: the candidate arrays under a
\* key of an object occurring anywhere in the body
AllMemberArrays(body) ==
  UNION { MemberArrays(o) : o \in {w \in ValuesIn(body) : w.kind = "obj"} }

RECURSIVE ValueAt(_, _)
\* the value at the end of the chain of keys from v through objects only,
\* UNDEF when the chain leaves the objects
ValueAt(v, keys) ==
  IF keys = <<>> THEN v
  ELSE IF v.kind = "obj" /\ HasMember(v, Head(keys))
    THEN ValueAt(Member(v, Head(keys)), Tail(keys))
  ELSE UNDEF

RECURSIVE Dotted(_)
Dotted(keys) ==
  IF keys = <<>> THEN ""
  ELSE IF Len(keys) = 1 THEN keys[1]
  ELSE keys[1] \o "." \o Dotted(Tail(keys))

KeyChains == SeqsUpTo({"a", "b"}, MaxDepth + 1)

\* the candidates C20 as amended has registered: the candidate arrays at
\* the end of a chain of keys through objects only, the empty chain included
ArraysUnderObjectChains(body) ==
  { [path |-> Dotted(keys), items |-> ValueAt(body, keys).items] :
      keys \in {c \in KeyChains : IsCandidateArray(ValueAt(body, c))} }

Registered == {ret[k] : k \in 1..Len(ret)}

\* C20 as stated: collectCandidateArrays registers, for every object
\* occurring anywhere in the body, elements of arrays included, every
\* non-empty array of objects under one of its keys, and nothing else.
C20_EveryObjectAnywhere ==
  (pc = "called" /\ fn = "collectCandidateArrays") =>
    {c.items : c \in Registered} = AllMemberArrays(arg)

\* C20 as amended: collectCandidateArrays registers, once each and tagged
\* with the dotted chain of keys, the non-empty arrays of objects found at
\* the end of a chain of keys that leads from the body through objects only
\* (the body itself, with an empty path, when it is such an array), and
\* nothing else: it does not descend into the elements of an array.
C20_ObjectChainsOnly ==
  (pc = "called" /\ fn = "collectCandidateArrays") =>
    /\ Registered = ArraysUnderObjectChains(arg)
    /\ Len(ret) = Cardinality(ArraysUnderObjectChains(arg))

\* collectCandidateArrays registered an array of a body and left out an
\* array of objects under a key of one of its elements
C20_Witness ==
  /\ pc = "called" /\ fn = "collectCandidateArrays"
  /\ \E c \in Registered : c.path # ""
  /\ \E a \in AllMemberArrays(arg) : a \notin {c.items : c \in Registered}

\* the URLs of the responses that match the relevance pattern
RelevantUrls == {res.url : res \in {r \in Responses : matchesCapture(r.url)}}

\* capture c passed the three tests of the response handler
Retainable(c) ==
  /\ c.resourceType \in {"xhr", "fetch", "document"}
  /\ c.url \in RelevantUrls
  /\ c.bodyLength >= minCaptureSize
  /\ c.bodyLength <= maxCaptureSize

\* C21: in any order of arrival, every capture in the buffer has a resource
\* type among xhr, fetch and document, a URL that matches the relevance
\* pattern and a body length from 2000 to 5 MiB, so that a response failing
\* one of the three tests is never in the buffer.
C21_OnlyRelevantCaptures ==
  \A i \in 1..Len(captured) : Retainable(captured[i])

\* two responses arrived and their handlers ended: one is in the buffer and
\* the other one was dropped
C21_Witness ==
  /\ responseCount = 2
  /\ pending = <<>>
  /\ Len(captured) = 1
  /\ Retainable(captured[1])

RECURSIVE ValueAlong(_, _)
\* the value at the end of the path of segments from v, a segment being a
\* key of an object or an index of an array; UNDEF when a segment is absent
ValueAlong(v, parts) ==
  IF parts = <<>> THEN v
  ELSE IF v.kind = "obj" /\ (\E i \in 1..Len(v.fields) : v.fields[i].k = Head(parts))
    THEN ValueAlong(v.fields[CHOOSE i \in 1..Len(v.fields) :
                               v.fields[i].k = Head(parts)].v, Tail(parts))
  ELSE IF v.kind = "arr" /\ (\E n \in 0..(Len(v.items) - 1) : ToString(n) = Head(parts))
    THEN ValueAlong(v.items[1 + CHOOSE n \in 0..(Len(v.items) - 1) :
                                  ToString(n) = Head(parts)], Tail(parts))
  ELSE UNDEF

\* the value the entry has at alias k of the list
AliasValue(entry, keys, k) == ValueAlong(entry, SplitDot(keys[k]))

\* the aliases of the list at which the entry has a value other than null
\* and undefined
Qualifying(entry, keys) ==
  {k \in 1..Len(keys) : AliasValue(entry, keys, k).kind \notin {"null", "undefined"}}

\* C22: pickFirstValue returns the value at the first alias path of the
\* list whose every segment is present, a numeric segment indexing an array,
\* and whose value is neither null nor undefined, and null when no alias
\* qualifies; an alias present with a null value does not hide a later one.
C22_FirstQualifyingAlias ==
  (pc = "called" /\ fn = "pickFirstValue") =>
    IF Qualifying(arg[1], arg[2]) = {}
      THEN ret = NULL
      ELSE \E k \in Qualifying(arg[1], arg[2]) :
             /\ \A j \in Qualifying(arg[1], arg[2]) : k <= j
             /\ ret = AliasValue(arg[1], arg[2], k)

\* pickFirstValue went past a first alias that is present with a null value
\* and returned the value found through an array index at the second
C22_Witness ==
  /\ pc = "called" /\ fn = "pickFirstValue"
  /\ Len(arg[2]) = 2
  /\ arg[2][1] = "b" /\ AliasValue(arg[1], arg[2], 1) = NULL
  /\ arg[2][2] = "a.0.b"
  /\ ret = JStr("x")

\* C23: the DOM pass de-duplicates before it filters: when the first named
\* tile resolving to a URL has a discountPct that is null or below 50, no
\* Product with that URL is emitted, whatever the later tiles of that URL.
C23_FirstTileDecides ==
  DomReturned =>
    \A url \in TileUrls :
      (/\ NamedAt(url) # {}
       /\ ~KeepsDiscount(mapTile(tiles[Smallest(NamedAt(url))]).product))
        => \A k \in 1..Len(products) : products[k].url # url

\* the DOM pass returned no Product for a URL whose first named tile is
\* discounted less than 50% and whose later tile is discounted 50% or more
C23_Witness ==
  /\ DomReturned
  /\ \E url \in TileUrls :
       /\ Cardinality(NamedAt(url)) >= 2
       /\ ~KeepsDiscount(mapTile(tiles[Smallest(NamedAt(url))]).product)
       /\ \E i \in NamedAt(url) : KeepsDiscount(mapTile(tiles[i]).product)
       /\ \A k \in 1..Len(products) : products[k].url # url

\* the non-empty arrays of objects of the captures, under a well-known key
\* or reachable by the generic walk
NonEmptyObjectArrays ==
  {a \in AllWellKnown :
     Len(a) > 0 /\ \A i \in 1..Len(a) : a[i].kind \in {"obj", "arr"}}
    \cup AllCandidates

\* C24: whenever a captured body holds a non-empty array of objects, under
\* a well-known key or reachable by the generic walk, the reconciler selects
\* a non-empty array: an empty array under a well-known key is not the
\* selected match while a non-empty candidate exists.
C24_SelectsNonEmpty ==
  (ReconcilerReturned /\ NonEmptyObjectArrays # {}) =>
    (~matched.none /\ Len(matched.items) > 0)

\* scrapeStore has passed its stats to writeOutput and logStoreSummary, on
\* the path of the try block or on that of the catch block
StatsReported == pc \in {"finally", "done"}

\* the products of the run are those of the reconciler
FromReconciler == domRuns = 0 /\ Len(products) > 0

\* C25 as stated: in every stats record and telemetry line of scrapeStore,
\* keptCount <= parsedCount <= tiles, and on the success path keptCount is
\* the number of items written.
C25_CountsOrdered ==
  StatsReported =>
    /\ keptCount <= parsedCount
    /\ parsedCount <= tilesCount
    /\ outcome = "returned" =>
         (output.keptCount = keptCount /\ keptCount = Len(output.items))

\* C25 as amended: in every stats record and telemetry line of scrapeStore,
\* keptCount <= parsedCount; parsedCount <= tiles unless the products are
\* those of the reconciler, in which case tiles is 0 and parsedCount and
\* keptCount both are the number of products; on the success path keptCount
\* is the number of items written.
C25_CountsOrderedOnDomPath ==
  StatsReported =>
    /\ keptCount <= parsedCount
    /\ ~FromReconciler => parsedCount <= tilesCount
    /\ FromReconciler =>
         (tilesCount = 0 /\ parsedCount = Len(products) /\ keptCount = Len(products))
    /\ outcome = "returned" =>
         (output.keptCount = keptCount /\ keptCount = Len(output.items))

\* a run without tiles returned the products of the reconciler, with stats
\* of 0 tiles and as many parsed and kept as items written
C25_Witness ==
  /\ StatsReported
  /\ outcome = "returned"
  /\ FromReconciler
  /\ output.tiles = 0
  /\ output.parsedCount > 0
  /\ output.keptCount = Len(output.items)

\* C26: on every exit path of scrapeStore after the launch of the browser
\* (return, failure in the try block, failure while the context or the page
\* is created, failure while the context is closed), browser.close has been
\* called when scrapeStore settles.
C26_BrowserClosedOnExit == pc = "done" => ~browserOpen

\* text t is a decimal integer numeral: digits only, after an optional sign
IsIntegerText(t) ==
  /\ t # ""
  /\ \E d \in {IF Head(t) \in {"-", "+"} THEN Tail(t) ELSE t} :
       d # "" /\ \A i \in 1..Len(d) : Ch(d, i) \in Digits

\* the integer a decimal integer numeral denotes
IntegerOf(t) ==
  IF Head(t) = "-" THEN 0 - DigitsToInt(Tail(t))
  ELSE IF Head(t) = "+" THEN DigitsToInt(Tail(t))
  ELSE DigitsToInt(t)

\* the configuration is valid: integers with 1 <= SHARD_INDEX <= TOTAL_SHARDS
ValidConfig ==
  /\ IsIntegerText(env[1]) /\ IsIntegerText(env[2])
  /\ 1 <= IntegerOf(env[1]) /\ IntegerOf(env[1]) <= IntegerOf(env[2])

\* the shards of which store index i is a member, for T shards in all
ShardsOf(i, T) ==
  {k \in 1..T : \E j \in 1..Len(shardFilter(stores, T, k)) :
                  shardFilter(stores, T, k)[j] = i}

\* the shard filters of the T shards assign every store index to exactly
\* one shard, the one with index mod T = SHARD_INDEX - 1
ShardsPartition(T) ==
  \A i \in 0..(stores - 1) : ShardsOf(i, T) = {(i % T) + 1}

\* C27: for a valid configuration the shard filters of SHARD_INDEX = 1 to
\* TOTAL_SHARDS assign every store index to exactly one shard, and the
\* stores of the run are those of its shard; a configuration that is not
\* made of integers or is out of range makes getShardConfig throw before
\* any store is scraped.
C27_ShardsPartition ==
  pc \notin {"main"} =>
    IF ValidConfig
      THEN /\ mainError = ""
           /\ config = [shardIndex |-> IntegerOf(env[1]),
                        totalShards |-> IntegerOf(env[2])]
           /\ ShardsPartition(IntegerOf(env[2]))
      ELSE /\ mainError # ""
           /\ pc = "exit"
           /\ scraped = <<>>

\* the calls of scrapeStore that ended in one of the given ways
EndedIn(endings) == {k \in 1..Len(scraped) : scraped[k].ending \in endings}

\* C28: the runner scrapes the stores of its shard one after the other in
\* list order, each exactly once, a store whose scrapeStore rejects not
\* keeping the following ones from being scraped; when the loop has ended,
\* storesOk + storesBlocked + storesError = storesTotal, each store being
\* counted in exactly one of the three counters.
C28_EveryStoreScrapedAndCounted ==
  /\ pc = "loop" =>
       /\ Len(scraped) = cursor - 1
       /\ \A k \in 1..Len(scraped) : scraped[k].store = shardStores[k]
  /\ (pc = "exit" /\ mainError = "") =>
       /\ Len(scraped) = Len(shardStores)
       /\ \A k \in 1..Len(scraped) : scraped[k].store = shardStores[k]
       /\ summary.storesTotal = Len(shardStores)
       /\ summary.storesOk = Cardinality(EndedIn({"ok"}))
       /\ summary.storesBlocked = Cardinality(EndedIn({"blocked"}))
       /\ summary.storesError = Cardinality(EndedIn({"error"}))
       /\ summary.storesOk + summary.storesBlocked + summary.storesError
            = summary.storesTotal

\* the loop has ended for a shard of three stores of which the first was
\* rejected by scrapeStore, the second was blocked and the third succeeded
C28_Witness ==
  /\ pc = "exit" /\ mainError = ""
  /\ Len(shardStores) = 3
  /\ Len(scraped) = 3
  /\ scraped[1].ending = "error"
  /\ scraped[2].ending = "blocked"
  /\ scraped[3].ending = "ok"
  /\ summary.storesError = 1 /\ summary.storesBlocked = 1 /\ summary.storesOk = 1

\* loadAllProducts has returned
Loaded == pc = "loaded"

\* the loop has clicked a control in every iteration it completed, and in
\* at most maxAttempts of them
ClicksBounded == clicks = attempt /\ clicks <= maxAttempts

\* C29: for every page whose awaited operations return, loadAllProducts
\* terminates; it clicks at most 100 load-more controls, it stops at the
\* first iteration in which it clicks none, and its high-water mark
\* previousCount never decreases.
C29_LoadTerminates ==
  /\ <>Loaded
  /\ []ClicksBounded
  /\ [][previousCount' >= previousCount]_vars

\* loadAllProducts returned after it clicked a load-more control in each
\* of its 100 iterations
C29_Witness ==
  /\ Loaded
  /\ attempt = maxAttempts
  /\ clicks = maxAttempts
  /\ previousCount = MaxPageTiles

====
